---- MODULE Spec2Model ----
(***************************************************************************)
(* A model of two subsystems of the database engine:                       *)
(*   - the filter combiner  (src/src/optimizer/filter_combiner.cpp)        *)
(*   - the window operator and its segment tree                            *)
(*     (src/src/execution/operator/aggregate/physical_window.cpp)          *)
(* Each subsystem has its own specification over the shared variables.     *)
(***************************************************************************)
EXTENDS Integers, Sequences, FiniteSets, TLC

(***************************************************************************)
(* Bounds of the model                                                     *)
(***************************************************************************)
\* number of AddFilter calls made on one combiner
MaxFilters == 3
\* column references are columns 0 .. NumCols-1
NumCols == 2
\* integer constants of the predicates are 1 .. MaxConst
MaxConst == 2

(***************************************************************************)
(* Values (duckdb::Value): a tagged scalar, integer or string.  A string   *)
(* is its sequence of code units (bytes).                                  *)
(***************************************************************************)
IntVal(n) == [type |-> "INTEGER", i |-> n]
StrVal(str) == [type |-> "VARCHAR", s |-> str]

\* Value::operator<; strings in bytewise lexicographic order
\* (std::string::compare)
ValueLT(a, b) ==
    LET StrLess(x, y) ==
            \E k \in 1..(Len(y)) :
                /\ \A j \in 1..(k - 1) : j <= Len(x) /\ x[j] = y[j]
                /\ (k > Len(x) \/ (k <= Len(x) /\ x[k] < y[k]))
    IN  IF a.type = "VARCHAR" THEN StrLess(a.s, b.s) ELSE a.i < b.i

(***************************************************************************)
(* Expressions.  One record shape for every variant the combiner looks at. *)
(***************************************************************************)
COMPARE_EQUAL == "COMPARE_EQUAL"
COMPARE_NOTEQUAL == "COMPARE_NOTEQUAL"
COMPARE_LESSTHAN == "COMPARE_LESSTHAN"
COMPARE_GREATERTHAN == "COMPARE_GREATERTHAN"
COMPARE_LESSTHANOREQUALTO == "COMPARE_LESSTHANOREQUALTO"
COMPARE_GREATERTHANOREQUALTO == "COMPARE_GREATERTHANOREQUALTO"

ComparisonTypes ==
    {COMPARE_EQUAL, COMPARE_NOTEQUAL, COMPARE_LESSTHAN, COMPARE_GREATERTHAN,
     COMPARE_LESSTHANOREQUALTO, COMPARE_GREATERTHANOREQUALTO}

ColumnRef(c) == [cls |-> "BOUND_COLUMN_REF", type |-> "BOUND_COLUMN_REF", col |-> c]
Constant(v) == [cls |-> "BOUND_CONSTANT", type |-> "VALUE_CONSTANT", value |-> v]
Comparison(t, l, r) == [cls |-> "BOUND_COMPARISON", type |-> t, children |-> <<l, r>>]
Between(in, lo, hi, li, ui) ==
    [cls |-> "BOUND_BETWEEN", type |-> "COMPARE_BETWEEN", children |-> <<in, lo, hi>>,
     lower_inclusive |-> li, upper_inclusive |-> ui]
Conjunction(t, kids) == [cls |-> "BOUND_CONJUNCTION", type |-> t, children |-> kids]
InOperator(kids) == [cls |-> "BOUND_OPERATOR", type |-> "COMPARE_IN", children |-> kids]
Function(name, kids) ==
    [cls |-> "BOUND_FUNCTION", type |-> "BOUND_FUNCTION", name |-> name, children |-> kids]

Left(e) == e.children[1]
Right(e) == e.children[2]

\* Expression::IsFoldable: a constant, or an expression over foldable children
RECURSIVE IsFoldable(_)
IsFoldable(e) ==
    IF e.cls = "BOUND_CONSTANT" THEN TRUE
    ELSE IF e.cls = "BOUND_COLUMN_REF" THEN FALSE
    ELSE \A k \in 1..Len(e.children) : IsFoldable(e.children[k])

\* Expression::HasParameter: a parameter leaf somewhere below
RECURSIVE HasParameter(_)
HasParameter(e) ==
    IF e.cls = "BOUND_PARAMETER" THEN TRUE
    ELSE IF e.cls \in {"BOUND_CONSTANT", "BOUND_COLUMN_REF"} THEN FALSE
    ELSE \E k \in 1..Len(e.children) : HasParameter(e.children[k])

\* the comparison `v type w` on two values
CompareValues(type, v, w) ==
    CASE type = COMPARE_EQUAL -> v = w
      [] type = COMPARE_NOTEQUAL -> v # w
      [] type = COMPARE_LESSTHAN -> ValueLT(v, w)
      [] type = COMPARE_LESSTHANOREQUALTO -> ValueLT(v, w) \/ v = w
      [] type = COMPARE_GREATERTHAN -> ValueLT(w, v)
      [] OTHER -> ValueLT(w, v) \/ v = w

FlipComparisionExpression(type) ==
    CASE type = COMPARE_LESSTHAN -> COMPARE_GREATERTHAN
      [] type = COMPARE_GREATERTHAN -> COMPARE_LESSTHAN
      [] type = COMPARE_LESSTHANOREQUALTO -> COMPARE_GREATERTHANOREQUALTO
      [] type = COMPARE_GREATERTHANOREQUALTO -> COMPARE_LESSTHANOREQUALTO
      [] OTHER -> type

(***************************************************************************)
(* FilterCombiner: constant bounds of one equivalence set                  *)
(***************************************************************************)
\* ExpressionValueInformation
Info(type, constant) == [comparison_type |-> type, constant |-> constant]

IsGreaterThan(type) ==
    type = COMPARE_GREATERTHAN \/ type = COMPARE_GREATERTHANOREQUALTO

IsLessThan(type) ==
    type = COMPARE_LESSTHAN \/ type = COMPARE_LESSTHANOREQUALTO

InvertValueComparisonResult(result) ==
    CASE result = "PRUNE_RIGHT" -> "PRUNE_LEFT"
      [] result = "PRUNE_LEFT" -> "PRUNE_RIGHT"
      [] OTHER -> result

\* a plausible slip: the equality always prunes the other side
CompareEqualLeftAlwaysPrunes(left, right) == "PRUNE_RIGHT"

\* left is COMPARE_EQUAL: prune the right side, or the pair is unsatisfiable
CompareEqualLeft(left, right) ==
    LET prune_right_side ==
            CASE right.comparison_type = COMPARE_LESSTHAN ->
                    ValueLT(left.constant, right.constant)
              [] right.comparison_type = COMPARE_LESSTHANOREQUALTO ->
                    CompareValues(COMPARE_LESSTHANOREQUALTO, left.constant, right.constant)
              [] right.comparison_type = COMPARE_GREATERTHAN ->
                    CompareValues(COMPARE_GREATERTHAN, left.constant, right.constant)
              [] right.comparison_type = COMPARE_GREATERTHANOREQUALTO ->
                    CompareValues(COMPARE_GREATERTHANOREQUALTO, left.constant, right.constant)
              [] right.comparison_type = COMPARE_NOTEQUAL ->
                    CompareValues(COMPARE_NOTEQUAL, left.constant, right.constant)
              [] OTHER -> CompareValues(COMPARE_EQUAL, left.constant, right.constant)
    IN  IF prune_right_side THEN "PRUNE_RIGHT" ELSE "UNSATISFIABLE_CONDITION"

\* left is COMPARE_NOTEQUAL: prune the left side, or nothing
CompareNotEqualLeft(left, right) ==
    LET prune_left_side ==
            CASE right.comparison_type = COMPARE_LESSTHAN ->
                    CompareValues(COMPARE_GREATERTHANOREQUALTO, left.constant, right.constant)
              [] right.comparison_type = COMPARE_LESSTHANOREQUALTO ->
                    CompareValues(COMPARE_GREATERTHAN, left.constant, right.constant)
              [] right.comparison_type = COMPARE_GREATERTHAN ->
                    CompareValues(COMPARE_LESSTHANOREQUALTO, left.constant, right.constant)
              [] right.comparison_type = COMPARE_GREATERTHANOREQUALTO ->
                    ValueLT(left.constant, right.constant)
              [] OTHER -> CompareValues(COMPARE_EQUAL, left.constant, right.constant)
    IN  IF prune_left_side THEN "PRUNE_LEFT" ELSE "PRUNE_NOTHING"

\* a plausible slip: of two lower bounds the left one is always kept
CompareBothGreaterKeepsLeft(left, right) == "PRUNE_RIGHT"

\* a plausible slip: two lower bounds are both kept
CompareBothGreaterKeepsBoth(left, right) == "PRUNE_NOTHING"

\* both are [>] or [>=]
CompareBothGreater(left, right) ==
    IF CompareValues(COMPARE_GREATERTHAN, left.constant, right.constant) THEN "PRUNE_RIGHT"
    ELSE IF ValueLT(left.constant, right.constant) THEN "PRUNE_LEFT"
    ELSE IF left.comparison_type = COMPARE_GREATERTHANOREQUALTO THEN "PRUNE_LEFT"
    ELSE "PRUNE_RIGHT"

\* a plausible slip: of two upper bounds the left one is always kept
CompareBothLessKeepsLeft(left, right) == "PRUNE_RIGHT"

\* both are [<] or [<=]
CompareBothLess(left, right) ==
    IF ValueLT(left.constant, right.constant) THEN "PRUNE_RIGHT"
    ELSE IF CompareValues(COMPARE_GREATERTHAN, left.constant, right.constant) THEN "PRUNE_LEFT"
    ELSE IF left.comparison_type = COMPARE_LESSTHANOREQUALTO THEN "PRUNE_LEFT"
    ELSE "PRUNE_RIGHT"

\* a plausible slip: the two bounds may not meet in one point
CompareLessGreaterStrict(left, right) ==
    IF CompareValues(COMPARE_GREATERTHAN, left.constant, right.constant) THEN "PRUNE_NOTHING"
    ELSE "UNSATISFIABLE_CONDITION"

\* left is [<] or [<=] and right is [>] or [>=]
CompareLessGreater(left, right) ==
    IF CompareValues(COMPARE_GREATERTHANOREQUALTO, left.constant, right.constant) THEN "PRUNE_NOTHING"
    ELSE "UNSATISFIABLE_CONDITION"

RECURSIVE CompareValueInformation(_, _)
CompareValueInformation(left, right) ==
    IF left.comparison_type = COMPARE_EQUAL THEN
        CompareEqualLeft(left, right)
    ELSE IF right.comparison_type = COMPARE_EQUAL THEN
        InvertValueComparisonResult(CompareValueInformation(right, left))
    ELSE IF left.comparison_type = COMPARE_NOTEQUAL THEN
        CompareNotEqualLeft(left, right)
    ELSE IF right.comparison_type = COMPARE_NOTEQUAL THEN
        InvertValueComparisonResult(CompareValueInformation(right, left))
    ELSE IF IsGreaterThan(left.comparison_type) /\ IsGreaterThan(right.comparison_type) THEN
        CompareBothGreater(left, right)
    ELSE IF IsLessThan(left.comparison_type) /\ IsLessThan(right.comparison_type) THEN
        CompareBothLess(left, right)
    ELSE IF IsLessThan(left.comparison_type) THEN
        CompareLessGreater(left, right)
    ELSE
        InvertValueComparisonResult(CompareValueInformation(right, left))

RemoveAt(seq, i) == [k \in 1..(Len(seq) - 1) |-> IF k < i THEN seq[k] ELSE seq[k + 1]]

\* the loop of AddConstantComparison from position i on
RECURSIVE AddConstantComparisonFrom(_, _, _)
AddConstantComparisonFrom(info_list, i, info) ==
    IF i > Len(info_list) THEN
        [list |-> Append(info_list, info), result |-> "SUCCESS"]
    ELSE
        LET Switch(comparison) ==
                CASE comparison = "PRUNE_LEFT" ->
                        AddConstantComparisonFrom(RemoveAt(info_list, i), i, info)
                  [] comparison = "PRUNE_RIGHT" ->
                        [list |-> info_list, result |-> "SUCCESS"]
                  [] comparison = "UNSATISFIABLE_CONDITION" ->
                        [list |-> info_list, result |-> "UNSATISFIABLE"]
                  [] OTHER -> AddConstantComparisonFrom(info_list, i + 1, info)
        IN  Switch(CompareValueInformation(info_list[i], info))

AddConstantComparison(info_list, info) == AddConstantComparisonFrom(info_list, 1, info)

(***************************************************************************)
(* FilterCombiner state: a record c of the member maps                     *)
(***************************************************************************)
EmptyMap == [x \in {} |-> 0]

EmptyCombiner(index) ==
    [stored_expressions |-> {}, equivalence_set_map |-> EmptyMap,
     equivalence_map |-> EmptyMap, constant_values |-> EmptyMap,
     remaining_filters |-> <<>>, set_index |-> index]

\* GetNode: the stored copy of expr; the map is keyed by the expression's structure
GetNode(c, expr) == [c EXCEPT !.stored_expressions = @ \cup {expr}]

\* GetEquivalenceSet: the combiner after the call
GetEquivalenceSet(c, expr) ==
    IF expr \in DOMAIN c.equivalence_set_map THEN c
    ELSE [c EXCEPT !.equivalence_set_map = @ @@ (expr :> c.set_index),
                   !.equivalence_map = @ @@ (c.set_index :> <<expr>>),
                   !.constant_values = @ @@ (c.set_index :> <<>>),
                   !.set_index = @ + 1]

(***************************************************************************)
(* What a predicate means: the rows (column -> Value) that satisfy it      *)
(***************************************************************************)
ExprValue(row, e) == IF e.cls = "BOUND_COLUMN_REF" THEN row[e.col] ELSE e.value

\* code units of the LIKE wildcards '%' and '_'
PERCENT == 37
UNDERSCORE == 95

\* SQL LIKE: '%' matches any run of code units, '_' exactly one
RECURSIVE LikeMatch(_, _)
LikeMatch(str, pattern) ==
    IF pattern = <<>> THEN str = <<>>
    ELSE IF Head(pattern) = PERCENT THEN
        \E k \in 0..Len(str) : LikeMatch(SubSeq(str, k + 1, Len(str)), Tail(pattern))
    ELSE IF str = <<>> THEN FALSE
    ELSE IF Head(pattern) = UNDERSCORE \/ Head(pattern) = Head(str) THEN
        LikeMatch(Tail(str), Tail(pattern))
    ELSE FALSE

RECURSIVE Satisfies(_, _)
Satisfies(row, e) ==
    CASE e.cls = "BOUND_COMPARISON" ->
            CompareValues(e.type, ExprValue(row, Left(e)), ExprValue(row, Right(e)))
      [] e.cls = "BOUND_BETWEEN" ->
            /\ CompareValues(IF e.lower_inclusive THEN COMPARE_GREATERTHANOREQUALTO
                             ELSE COMPARE_GREATERTHAN,
                             ExprValue(row, e.children[1]), ExprValue(row, e.children[2]))
            /\ CompareValues(IF e.upper_inclusive THEN COMPARE_LESSTHANOREQUALTO
                             ELSE COMPARE_LESSTHAN,
                             ExprValue(row, e.children[1]), ExprValue(row, e.children[3]))
      [] e.cls = "BOUND_CONJUNCTION" ->
            IF e.type = "CONJUNCTION_AND"
            THEN \A k \in 1..Len(e.children) : Satisfies(row, e.children[k])
            ELSE \E k \in 1..Len(e.children) : Satisfies(row, e.children[k])
      [] e.cls = "BOUND_OPERATOR" ->
            \E k \in 2..Len(e.children) :
                ExprValue(row, e.children[1]) = ExprValue(row, e.children[k])
      [] e.cls = "BOUND_FUNCTION" ->
            IF e.name = "prefix"
            THEN LET p == ExprValue(row, e.children[2]).s
                     str == ExprValue(row, e.children[1]).s
                 IN  Len(p) <= Len(str) /\ \A k \in 1..Len(p) : str[k] = p[k]
            ELSE LikeMatch(ExprValue(row, e.children[1]).s, ExprValue(row, e.children[2]).s)
      [] OTHER -> FALSE

\* ExpressionExecutor::EvaluateScalar on a foldable expression: the constant's
\* value, or the truth value of a predicate over constants
EvaluateScalar(expr) ==
    IF expr.cls = "BOUND_CONSTANT" THEN expr.value
    ELSE [type |-> "BOOLEAN", i |-> IF Satisfies(EmptyMap, expr) THEN 1 ELSE 0]

\* FindTransitiveFilter: the filter found (found = FALSE for nullptr) and the
\* combiner without it; the filter taken is the first one that matches
FindTransitiveFilter(c, expr) ==
    LET hits == IF expr.type # "BOUND_COLUMN_REF" THEN {}
                ELSE {i \in 1..Len(c.remaining_filters) :
                         /\ c.remaining_filters[i].cls = "BOUND_COMPARISON"
                         /\ expr = Right(c.remaining_filters[i])
                         /\ c.remaining_filters[i].type # COMPARE_NOTEQUAL}
    IN  IF hits = {} THEN [found |-> FALSE, filter |-> expr, c |-> c]
        ELSE LET i == CHOOSE h \in hits : \A k \in hits : h <= k
             IN  [found |-> TRUE, filter |-> c.remaining_filters[i],
                  c |-> [c EXCEPT !.remaining_filters = RemoveAt(@, i)]]

\* a plausible slip: the direction of the right side's bound is not looked at
TransitiveInfoAnyDirection(comparison_type, right_constant) ==
    IF right_constant.comparison_type = COMPARE_EQUAL THEN
        [derive |-> TRUE, keep |-> FALSE,
         info |-> Info(comparison_type, right_constant.constant)]
    ELSE IF right_constant.comparison_type # COMPARE_NOTEQUAL THEN
        [derive |-> TRUE, keep |-> TRUE,
         info |-> Info(right_constant.comparison_type, right_constant.constant)]
    ELSE
        [derive |-> FALSE, keep |-> FALSE, info |-> right_constant]

\* The bound that AddTransitiveFilters derives for the left side from one constant
\* bound of the right side: what to add (derive), and whether the comparison itself
\* is kept in remaining_filters (keep)
TransitiveInfo(comparison_type, right_constant) ==
    IF right_constant.comparison_type = COMPARE_EQUAL THEN
        [derive |-> TRUE, keep |-> FALSE,
         info |-> Info(comparison_type, right_constant.constant)]
    ELSE IF \/ (comparison_type = COMPARE_GREATERTHANOREQUALTO
                    /\ IsGreaterThan(right_constant.comparison_type))
            \/ (comparison_type = COMPARE_LESSTHANOREQUALTO
                    /\ IsLessThan(right_constant.comparison_type)) THEN
        [derive |-> TRUE, keep |-> TRUE,
         info |-> Info(right_constant.comparison_type, right_constant.constant)]
    ELSE IF \/ (comparison_type = COMPARE_GREATERTHAN
                    /\ IsGreaterThan(right_constant.comparison_type))
            \/ (comparison_type = COMPARE_LESSTHAN
                    /\ IsLessThan(right_constant.comparison_type)) THEN
        [derive |-> TRUE, keep |-> TRUE,
         info |-> Info(comparison_type, right_constant.constant)]
    ELSE
        [derive |-> FALSE, keep |-> FALSE, info |-> right_constant]

\* The loop of AddTransitiveFilters over right_constants from position k on.
\* acc = [c, isSuccessful, isInserted, result]; result is "UNSATISFIABLE" when the
\* loop returned early.
RECURSIVE TransitiveLoop(_, _, _, _, _, _)
TransitiveLoop(acc, comparison, left_set, right_constants, k, n) ==
    IF k > n THEN acc
    ELSE
        LET \* after AddConstantComparison on the left bucket of c1
            Added(c1, ins, added) ==
                LET c2 == [c1 EXCEPT !.constant_values[left_set] = added.list]
                IN  IF added.result = "UNSATISFIABLE" THEN
                        [c |-> c2, isSuccessful |-> acc.isSuccessful, isInserted |-> ins,
                         result |-> "UNSATISFIABLE"]
                    ELSE
                        TransitiveLoop([c |-> c2, isSuccessful |-> TRUE, isInserted |-> ins,
                                        result |-> "SUCCESS"],
                                       comparison, left_set, right_constants, k + 1, n)
            \* the filter is kept in remaining_filters once, then the constant is added
            Derive(t, c1) ==
                Added(c1, acc.isInserted \/ t.keep,
                      AddConstantComparison(c1.constant_values[left_set], t.info))
            Body(t) ==
                IF ~t.derive THEN
                    TransitiveLoop(acc, comparison, left_set, right_constants, k + 1, n)
                ELSE
                    Derive(t, IF t.keep /\ ~acc.isInserted
                              THEN [acc.c EXCEPT !.remaining_filters = Append(@, comparison)]
                              ELSE acc.c)
        IN  Body(TransitiveInfo(comparison.type, right_constants[k]))

\* AddTransitiveFilters.  `seen` holds the (combiner, comparison) pairs of the calls
\* that are on the stack: entering one of them again is a recursion that never
\* returns, reported as "DIVERGES".
RECURSIVE AddTransitiveFilters(_, _, _)
AddTransitiveFilters(c, comparison, seen) ==
    IF <<c, comparison>> \in seen THEN [c |-> c, result |-> "DIVERGES"]
    ELSE
    LET left_node == Left(comparison)
        right_node == Right(comparison)
        c1 == GetNode(GetNode(c, left_node), right_node)
        \* after the recursive call on the filter that was found
        AfterRecursion(found, inner) ==
            IF inner.result = "DIVERGES" THEN inner
            ELSE IF inner.result = "UNSUPPORTED" THEN
                [c |-> [inner.c EXCEPT !.remaining_filters = Append(@, found.filter)],
                 result |-> "SUCCESS"]
            ELSE [c |-> inner.c, result |-> "SUCCESS"]
        \* after FindTransitiveFilter(left_node)
        AfterFind(loop, found) ==
            IF ~found.found THEN [c |-> loop.c, result |-> "SUCCESS"]
            ELSE AfterRecursion(found,
                                AddTransitiveFilters(found.c, found.filter,
                                                     seen \cup {<<c, comparison>>}))
        \* after the loop over right_constants
        AfterLoop(loop) ==
            IF loop.result = "UNSATISFIABLE" THEN
                [c |-> loop.c, result |-> "UNSATISFIABLE"]
            ELSE IF ~loop.isSuccessful THEN
                [c |-> loop.c, result |-> "UNSUPPORTED"]
            ELSE AfterFind(loop, FindTransitiveFilter(loop.c, left_node))
    IN  IF left_node = right_node THEN [c |-> c1, result |-> "UNSUPPORTED"]
        ELSE
        LET c2 == GetEquivalenceSet(GetEquivalenceSet(c1, left_node), right_node)
            left_equivalence_set == c2.equivalence_set_map[left_node]
            right_equivalence_set == c2.equivalence_set_map[right_node]
        IN  IF left_equivalence_set = right_equivalence_set THEN
                [c |-> c2, result |-> "SUCCESS"]
            ELSE
            LET right_constants == c2.constant_values[right_equivalence_set]
            IN  AfterLoop(TransitiveLoop([c |-> c2, isSuccessful |-> FALSE,
                                          isInserted |-> FALSE, result |-> "SUCCESS"],
                                         comparison, left_equivalence_set,
                                         right_constants, 1, Len(right_constants)))

\* a plausible slip: the right bucket's constants are not carried over
MergeConstantsDropped(c, left_set, right_constant_bucket, k) ==
    [c |-> c, result |-> "SUCCESS"]

\* the loop that adds the right bucket's constants to the left bucket, from k on
RECURSIVE MergeConstants(_, _, _, _)
MergeConstants(c, left_set, right_constant_bucket, k) ==
    IF k > Len(right_constant_bucket) THEN [c |-> c, result |-> "SUCCESS"]
    ELSE
        LET Added(added) ==
                LET c1 == [c EXCEPT !.constant_values[left_set] = added.list]
                IN  IF added.result = "UNSATISFIABLE"
                    THEN [c |-> c1, result |-> "UNSATISFIABLE"]
                    ELSE MergeConstants(c1, left_set, right_constant_bucket, k + 1)
        IN  Added(AddConstantComparison(c.constant_values[left_set],
                                        right_constant_bucket[k]))

\* after FindTransitiveFilter in the scalar branch: try the transitive filters and
\* put the filter back when that is unsupported; the call returns ret
ScalarTransitive(c, non_scalar, ret) ==
    LET AfterTransitive(found, inner) ==
            IF inner.result = "DIVERGES" THEN inner
            ELSE IF inner.result = "UNSUPPORTED" THEN
                [c |-> [inner.c EXCEPT !.remaining_filters = Append(@, found.filter)],
                 result |-> ret]
            ELSE [c |-> inner.c, result |-> ret]
        AfterFind(found) ==
            IF ~found.found THEN [c |-> c, result |-> ret]
            ELSE AfterTransitive(found, AddTransitiveFilters(found.c, found.filter, {}))
    IN  AfterFind(FindTransitiveFilter(c, non_scalar))

\* the equality branch: the right bucket is added into the left bucket
MergeEquivalenceSets(c, left_equivalence_set, right_equivalence_set) ==
    LET right_bucket == c.equivalence_map[right_equivalence_set]
        c1 == [c EXCEPT
                 !.equivalence_set_map =
                     [e \in DOMAIN @ |->
                         IF \E k \in 1..Len(right_bucket) : right_bucket[k] = e
                         THEN left_equivalence_set ELSE @[e]],
                 !.equivalence_map[left_equivalence_set] = @ \o right_bucket]
    IN  MergeConstants(c1, left_equivalence_set,
                       c1.constant_values[right_equivalence_set], 1)

AddBoundComparisonFilter(c, expr) ==
    IF expr.type \notin ComparisonTypes THEN [c |-> c, result |-> "UNSUPPORTED"]
    ELSE
    LET left_is_scalar == IsFoldable(Left(expr))
        right_is_scalar == IsFoldable(Right(expr))
    IN  IF left_is_scalar \/ right_is_scalar THEN
            LET node == IF left_is_scalar THEN Right(expr) ELSE Left(expr)
                c1 == GetEquivalenceSet(GetNode(c, node), node)
                equivalence_set == c1.equivalence_set_map[node]
                scalar == IF left_is_scalar THEN Left(expr) ELSE Right(expr)
                info == Info(IF left_is_scalar THEN FlipComparisionExpression(expr.type)
                             ELSE expr.type,
                             EvaluateScalar(scalar))
                Added(added) ==
                    ScalarTransitive([c1 EXCEPT !.constant_values[equivalence_set] =
                                         added.list],
                                     node, added.result)
            IN  Added(AddConstantComparison(c1.constant_values[equivalence_set], info))
        ELSE IF expr.type # COMPARE_EQUAL THEN
            IF IsGreaterThan(expr.type) \/ IsLessThan(expr.type)
            THEN AddTransitiveFilters(c, expr, {})
            ELSE [c |-> c, result |-> "UNSUPPORTED"]
        ELSE
            LET left_node == Left(expr)
                right_node == Right(expr)
                c1 == GetNode(GetNode(c, left_node), right_node)
            IN  IF left_node = right_node THEN [c |-> c1, result |-> "UNSUPPORTED"]
                ELSE
                LET c2 == GetEquivalenceSet(GetEquivalenceSet(c1, left_node), right_node)
                    left_equivalence_set == c2.equivalence_set_map[left_node]
                    right_equivalence_set == c2.equivalence_set_map[right_node]
                IN  IF left_equivalence_set = right_equivalence_set
                    THEN [c |-> c2, result |-> "SUCCESS"]
                    ELSE MergeEquivalenceSets(c2, left_equivalence_set,
                                              right_equivalence_set)

\* the BETWEEN branch of AddFilter; both bounds are handed to EvaluateScalar, which
\* fails ("ERROR") on a bound that is not foldable
AddBetweenFilter(c, expr) ==
    LET input == expr.children[1]
        lower == expr.children[2]
        upper == expr.children[3]
        c1 == GetEquivalenceSet(GetNode(c, input), input)
        equivalence_set == c1.equivalence_set_map[input]
    IN  IF ~IsFoldable(lower) THEN [c |-> c1, result |-> "ERROR"]
        ELSE
        LET lower_info == Info(IF expr.lower_inclusive THEN COMPARE_GREATERTHANOREQUALTO
                               ELSE COMPARE_GREATERTHAN, EvaluateScalar(lower))
            \* the upper bound is added to the bucket c2 that holds the lower bound
            Upper(c2) ==
                IF ~IsFoldable(upper) THEN [c |-> c2, result |-> "ERROR"]
                ELSE
                LET upper_info == Info(IF expr.upper_inclusive
                                       THEN COMPARE_LESSTHANOREQUALTO
                                       ELSE COMPARE_LESSTHAN, EvaluateScalar(upper))
                    Added(added) ==
                        [c |-> [c2 EXCEPT !.constant_values[equivalence_set] = added.list],
                         result |-> added.result]
                IN  Added(AddConstantComparison(c2.constant_values[equivalence_set],
                                                upper_info))
        IN  Upper([c1 EXCEPT !.constant_values[equivalence_set] =
                      AddConstantComparison(c1.constant_values[equivalence_set],
                                            lower_info).list])

\* FilterCombiner::AddFilter(Expression *)
AddFilterExpr(c, expr) ==
    IF HasParameter(expr) THEN [c |-> c, result |-> "UNSUPPORTED"]
    ELSE IF IsFoldable(expr) THEN
        IF EvaluateScalar(expr).i = 0 THEN [c |-> c, result |-> "UNSATISFIABLE"]
        ELSE [c |-> c, result |-> "SUCCESS"]
    ELSE IF expr.cls = "BOUND_BETWEEN" THEN
        IF IsFoldable(expr.children[2]) \/ IsFoldable(expr.children[3])
        THEN AddBetweenFilter(c, expr)
        ELSE [c |-> c, result |-> "UNSUPPORTED"]
    ELSE IF expr.cls = "BOUND_COMPARISON" THEN AddBoundComparisonFilter(c, expr)
    ELSE [c |-> c, result |-> "UNSUPPORTED"]

\* FilterCombiner::AddFilter(unique_ptr<Expression>)
AddFilter(c, expr) ==
    LET Result(r) ==
            IF r.result = "UNSUPPORTED"
            THEN [c |-> [r.c EXCEPT !.remaining_filters = Append(@, expr)],
                  result |-> "SUCCESS"]
            ELSE r
    IN  Result(AddFilterExpr(c, expr))

(***************************************************************************)
(* FilterCombiner::GenerateFilters                                         *)
(***************************************************************************)
\* the orders in which an unordered_map with key set S may be iterated
IterationOrders(S) ==
    {f \in [1..Cardinality(S) -> S] : \A i, j \in 1..Cardinality(S) : f[i] = f[j] => i = j}

RECURSIVE Flatten(_)
Flatten(seqs) == IF seqs = <<>> THEN <<>> ELSE Head(seqs) \o Flatten(Tail(seqs))

\* the filters generated for member entries[i] of one equivalence set
GenerateForEntry(entries, constant_list, i) ==
    LET equalities == [k \in 1..(Len(entries) - i) |->
                          Comparison(COMPARE_EQUAL, entries[i], entries[i + k])]
        IsLower(k) == IsGreaterThan(constant_list[k].comparison_type)
        IsUpper(k) == IsLessThan(constant_list[k].comparison_type)
        IsOther(info) == ~IsGreaterThan(info.comparison_type)
                            /\ ~IsLessThan(info.comparison_type)
        others == SelectSeq(constant_list, IsOther)
        direct == [k \in 1..Len(others) |->
                      Comparison(others[k].comparison_type, entries[i],
                                 Constant(others[k].constant))]
        Last(S) == IF S = {} THEN 0 ELSE CHOOSE k \in S : \A j \in S : j <= k
        lower_index == Last({k \in 1..Len(constant_list) : IsLower(k)})
        upper_index == Last({k \in 1..Len(constant_list) : IsUpper(k)})
        bounds ==
            IF lower_index > 0 /\ upper_index > 0 THEN
                <<Between(entries[i], Constant(constant_list[lower_index].constant),
                          Constant(constant_list[upper_index].constant),
                          constant_list[lower_index].comparison_type
                              = COMPARE_GREATERTHANOREQUALTO,
                          constant_list[upper_index].comparison_type
                              = COMPARE_LESSTHANOREQUALTO)>>
            ELSE IF lower_index > 0 THEN
                <<Comparison(constant_list[lower_index].comparison_type, entries[i],
                             Constant(constant_list[lower_index].constant))>>
            ELSE IF upper_index > 0 THEN
                <<Comparison(constant_list[upper_index].comparison_type, entries[i],
                             Constant(constant_list[upper_index].constant))>>
            ELSE <<>>
    IN  equalities \o direct \o bounds

\* the filters handed to the callback, in order; `order` is the order in which
\* equivalence_map is iterated
GenerateFilters(c, order) ==
    LET ForSet(equivalence_set) ==
            LET entries == c.equivalence_map[equivalence_set]
                constant_list == c.constant_values[equivalence_set]
            IN  Flatten([i \in 1..Len(entries) |->
                            GenerateForEntry(entries, constant_list, i)])
    IN  c.remaining_filters \o Flatten([k \in 1..Len(order) |-> ForSet(order[k])])

\* a plausible slip: remaining_filters.clear() is forgotten
AfterGenerateFiltersKeepsRemaining(c) ==
    [c EXCEPT !.stored_expressions = {}, !.equivalence_set_map = EmptyMap,
              !.constant_values = EmptyMap, !.equivalence_map = EmptyMap]

\* the combiner GenerateFilters leaves behind: the five clear() calls
AfterGenerateFilters(c) ==
    [c EXCEPT !.remaining_filters = <<>>, !.stored_expressions = {},
              !.equivalence_set_map = EmptyMap, !.constant_values = EmptyMap,
              !.equivalence_map = EmptyMap]

(***************************************************************************)
(* FilterCombiner::GenerateTableScanFilters                                *)
(***************************************************************************)
\* the column id that stands for the row id (COLUMN_IDENTIFIER_ROW_ID)
COLUMN_IDENTIFIER_ROW_ID == -1

TableFilter(constant, comparison_type, column_index) ==
    [constant |-> constant, comparison_type |-> comparison_type,
     column_index |-> column_index]

\* the code units of a char: 8 bits
CharRange == 256

IncrementLastNot(str) == str

\* str[str.size() - 1]++
IncrementLast(str) == [str EXCEPT ![Len(str)] = (@ + 1) % CharRange]

PushableComparison(type) ==
    type \in {COMPARE_EQUAL, COMPARE_GREATERTHAN, COMPARE_GREATERTHANOREQUALTO,
              COMPARE_LESSTHAN, COMPARE_LESSTHANOREQUALTO}

\* The first loop, over constant_values in iteration order `order`, from position k.
\* acc = [c, filters, ub]; ub: equivalence_map.find returned end() and was
\* dereferenced.
RECURSIVE ScanConstantValues(_, _, _, _)
ScanConstantValues(acc, column_ids, order, k) ==
    IF k > Len(order) \/ acc.ub THEN acc
    ELSE
    LET set == order[k]
        list == acc.c.constant_values[set]
    IN  IF list = <<>> \/ ~PushableComparison(list[1].comparison_type)
               \/ list[1].constant.type \notin {"INTEGER", "VARCHAR"}
        THEN ScanConstantValues(acc, column_ids, order, k + 1)
        ELSE IF set \notin DOMAIN acc.c.equivalence_map THEN [acc EXCEPT !.ub = TRUE]
        ELSE
        LET entries == acc.c.equivalence_map[set]
        IN  IF ~(Len(entries) = 1 /\ entries[1].type = "BOUND_COLUMN_REF")
            THEN ScanConstantValues(acc, column_ids, order, k + 1)
            ELSE IF column_ids[entries[1].col] = COLUMN_IDENTIFIER_ROW_ID THEN acc
            ELSE
            LET new == [j \in 1..Len(list) |->
                           TableFilter(list[j].constant, list[j].comparison_type,
                                       entries[1].col)]
                em == acc.c.equivalence_map
                c1 == [acc.c EXCEPT !.equivalence_map =
                          [x \in DOMAIN em \ {set} |-> em[x]]]
            IN  ScanConstantValues([c |-> c1, filters |-> acc.filters \o new, ub |-> FALSE],
                                   column_ids, order, k + 1)

ColumnAndConstant(func) ==
    /\ func.children[1].cls = "BOUND_COLUMN_REF"
    /\ func.children[2].type = "VALUE_CONSTANT"

\* the text of a LIKE pattern before its first wildcard
RECURSIVE LikePrefix(_)
LikePrefix(like_string) ==
    IF like_string = <<>> THEN <<>>
    ELSE IF Head(like_string) = PERCENT \/ Head(like_string) = UNDERSCORE THEN <<>>
    ELSE <<Head(like_string)>> \o LikePrefix(Tail(like_string))

\* col >= prefix and col < prefix with its last code unit incremented
PrefixRange(prefix, column_index) ==
    <<TableFilter(StrVal(prefix), COMPARE_GREATERTHANOREQUALTO, column_index),
      TableFilter(StrVal(IncrementLast(prefix)), COMPARE_LESSTHAN, column_index)>>

\* the filters pushed for col ~~ 'lit' that has no leading wildcard
LikeFilters(func) ==
    LET like_string == func.children[2].value.s
        prefix == LikePrefix(like_string)
    IN  IF prefix = like_string
        THEN <<TableFilter(StrVal(prefix), COMPARE_EQUAL, func.children[1].col)>>
        ELSE PrefixRange(prefix, func.children[1].col)

\* the filters pushed for col IN (c1, .., ck) over constants: <<>> when the IN is
\* left alone
InFilters(func) ==
    LET in_values == SortSeq([i \in 1..(Len(func.children) - 1) |->
                                 func.children[i + 1].value],
                            LAMBDA a, b : a.i < b.i)
        is_consecutive == \A i \in 2..Len(in_values) :
                              ~(in_values[i].i - in_values[i - 1].i > 1)
    IN  IF func.children[2].value.type = "INTEGER" /\ is_consecutive /\ in_values # <<>>
        THEN <<TableFilter(in_values[1], COMPARE_GREATERTHANOREQUALTO,
                           func.children[1].col),
               TableFilter(in_values[Len(in_values)], COMPARE_LESSTHANOREQUALTO,
                           func.children[1].col)>>
        ELSE <<>>

\* The second loop, over remaining_filters from position rem_fil_idx.
RECURSIVE ScanRemainingFilters(_, _, _)
ScanRemainingFilters(acc, column_ids, rem_fil_idx) ==
    IF rem_fil_idx > Len(acc.c.remaining_filters) THEN acc
    ELSE
    LET remaining_filter == acc.c.remaining_filters[rem_fil_idx]
    IN  IF remaining_filter.cls = "BOUND_FUNCTION" THEN
            IF remaining_filter.name = "prefix" /\ ColumnAndConstant(remaining_filter) THEN
                LET prefix_string == remaining_filter.children[2].value.s
                IN  IF prefix_string = <<>>
                    THEN ScanRemainingFilters(acc, column_ids, rem_fil_idx + 1)
                    ELSE ScanRemainingFilters(
                            [acc EXCEPT !.filters = @ \o
                                PrefixRange(prefix_string, remaining_filter.children[1].col)],
                            column_ids, rem_fil_idx + 1)
            ELSE IF remaining_filter.name = "~~" /\ ColumnAndConstant(remaining_filter) THEN
                LET like_string == remaining_filter.children[2].value.s
                IN  IF like_string # <<>> /\ (like_string[1] = PERCENT
                                               \/ like_string[1] = UNDERSCORE)
                    THEN acc
                    ELSE ScanRemainingFilters(
                            [acc EXCEPT !.filters = @ \o LikeFilters(remaining_filter)],
                            column_ids, rem_fil_idx + 1)
            ELSE ScanRemainingFilters(acc, column_ids, rem_fil_idx + 1)
        ELSE IF remaining_filter.type = "COMPARE_IN"
                    /\ remaining_filter.children[1].cls = "BOUND_COLUMN_REF" THEN
            IF column_ids[remaining_filter.children[1].col] = COLUMN_IDENTIFIER_ROW_ID
            THEN acc
            ELSE IF (\A i \in 2..Len(remaining_filter.children) :
                        remaining_filter.children[i].type = "VALUE_CONSTANT")
                    /\ InFilters(remaining_filter) # <<>> THEN
                ScanRemainingFilters(
                    [acc EXCEPT !.filters = @ \o InFilters(remaining_filter),
                                !.c.remaining_filters = RemoveAt(@, rem_fil_idx)],
                    column_ids, rem_fil_idx + 1)
            ELSE ScanRemainingFilters(acc, column_ids, rem_fil_idx + 1)
        ELSE ScanRemainingFilters(acc, column_ids, rem_fil_idx + 1)

\* GenerateTableScanFilters: [c, filters, ub], the combiner afterwards and the
\* filters returned; `order` is the order in which constant_values is iterated
GenerateTableScanFilters(c, column_ids, order) ==
    LET SecondLoop(first) ==
            IF first.ub THEN first ELSE ScanRemainingFilters(first, column_ids, 1)
    IN  SecondLoop(ScanConstantValues([c |-> c, filters |-> <<>>, ub |-> FALSE],
                                      column_ids, order, 1))

(***************************************************************************)
(* FilterCombiner::GenerateZonemapChecks                                   *)
(***************************************************************************)
\* checks[col] widened by one constant
Widen(z, col, value) ==
    IF col \notin DOMAIN z.checks
    THEN [z EXCEPT !.checks = @ @@ (col :> <<value, value>>)]
    ELSE [z EXCEPT !.checks[col] =
                <<IF CompareValues(COMPARE_GREATERTHAN, @[1], value) THEN value ELSE @[1],
                  IF ValueLT(@[2], value) THEN value ELSE @[2]>>]

\* the loop over the constants of an IN, from child i
RECURSIVE ZonemapInValues(_, _, _, _)
ZonemapInValues(z, column_ids, in_exp, i) ==
    IF i > Len(in_exp.children) THEN z
    ELSE IF in_exp.children[i].type # "VALUE_CONSTANT"
    THEN [z EXCEPT !.not_constants = @ \cup {column_ids[in_exp.children[1].col]}]
    ELSE ZonemapInValues(Widen(z, column_ids[in_exp.children[1].col],
                               in_exp.children[i].value),
                         column_ids, in_exp, i + 1)

\* z = [checks, not_constants]
RECURSIVE FindZonemapChecks(_, _, _)
RECURSIVE ZonemapChildren(_, _, _, _)
ZonemapChildren(z, column_ids, children, k) ==
    IF k > Len(children) THEN z
    ELSE ZonemapChildren(FindZonemapChecks(z, column_ids, children[k]),
                         column_ids, children, k + 1)

FindZonemapChecks(z, column_ids, filter) ==
    IF filter.type \in {"CONJUNCTION_OR", "CONJUNCTION_AND"} THEN
        ZonemapChildren(z, column_ids, filter.children, 1)
    ELSE IF filter.type = "COMPARE_IN" THEN
        IF filter.children[1].type = "BOUND_COLUMN_REF"
        THEN ZonemapInValues(z, column_ids, filter, 2)
        ELSE z
    ELSE IF PushableComparison(filter.type) THEN
        IF Left(filter).cls = "BOUND_COLUMN_REF" /\ Right(filter).cls = "BOUND_CONSTANT"
        THEN Widen(z, column_ids[Left(filter).col], Right(filter).value)
        ELSE IF Left(filter).cls = "BOUND_COLUMN_REF"
        THEN [z EXCEPT !.not_constants = @ \cup {column_ids[Left(filter).col]}]
        ELSE z
    ELSE z

\* the set of zonemap checks returned (their order is that of an unordered_map)
GenerateZonemapChecks(c, column_ids, pushed_filters) ==
    LET pushed == {column_ids[pushed_filters[k].column_index] :
                      k \in 1..Len(pushed_filters)}
        \* the checks built from what FindZonemapChecks collected
        Checks(z) ==
            LET kept == (DOMAIN z.checks \ z.not_constants) \ pushed
            IN  {TableFilter(z.checks[col][1], COMPARE_GREATERTHANOREQUALTO, col) :
                    col \in kept}
                \cup {TableFilter(z.checks[col][2], COMPARE_LESSTHANOREQUALTO, col) :
                          col \in kept}
    IN  Checks(ZonemapChildren([checks |-> EmptyMap, not_constants |-> {}],
                               column_ids, c.remaining_filters, 1))

(***************************************************************************)
(* WindowSegmentTree                                                       *)
(***************************************************************************)

\* Values of the window operator: a number, or NULL
Numeric(v) == [is_null |-> FALSE, value |-> v]
NullValue == [is_null |-> TRUE, value |-> 0]

\* Value::MaximumValue and Value::MinimumValue of the payload type (SMALLINT)
MaximumValue == 32767
MinimumValue == -32768

\* the tree as constructed: no levels, no input yet
WindowSegmentTree(window_type, fanout) ==
    [window_type |-> window_type, fanout |-> fanout, levels |-> <<>>,
     input_ref |-> <<>>, aggregate |-> 0, n_aggregated |-> 0]

AggregateInit(t) ==
    [t EXCEPT !.aggregate = CASE t.window_type \in {"WINDOW_SUM", "WINDOW_AVG"} -> 0
                              [] t.window_type = "WINDOW_MIN" -> MaximumValue
                              [] t.window_type = "WINDOW_MAX" -> MinimumValue,
              !.n_aggregated = 0]

AggregateAccum(t, val) ==
    [t EXCEPT !.aggregate =
                  CASE t.window_type \in {"WINDOW_SUM", "WINDOW_AVG"} -> @ + val.value
                    [] t.window_type = "WINDOW_MIN" -> IF val.value < @ THEN val.value ELSE @
                    [] t.window_type = "WINDOW_MAX" -> IF val.value > @ THEN val.value ELSE @,
              !.n_aggregated = @ + 1]

AggegateFinal(t) ==
    IF t.n_aggregated = 0 THEN NullValue
    ELSE IF t.window_type = "WINDOW_AVG" THEN Numeric(t.aggregate \div t.n_aggregated)
    ELSE Numeric(t.aggregate)

\* the inner loop of Construct over one level, from position pos (from 1)
RECURSIVE ConstructLevel(_, _, _, _, _)
ConstructLevel(t, source, pos, nl, fanout_count) ==
    IF pos > Len(source)
    THEN [t |-> t, nl |-> IF fanout_count > 0 THEN Append(nl, AggegateFinal(t)) ELSE nl]
    ELSE LET t1 == AggregateAccum(t, source[pos])
         IN  IF fanout_count + 1 = t.fanout
             THEN ConstructLevel(AggregateInit(t1), source, pos + 1,
                                 Append(nl, AggegateFinal(t1)), 0)
             ELSE ConstructLevel(t1, source, pos + 1, nl, fanout_count + 1)

\* the outer loop of Construct: one more level while the last one has several nodes
RECURSIVE ConstructLevels(_)
ConstructLevels(t) ==
    LET source == IF t.levels = <<>> THEN t.input_ref ELSE t.levels[Len(t.levels)]
    IN  IF Len(source) > 1
        THEN LET NextLevel(r) == ConstructLevels([r.t EXCEPT !.levels = Append(@, r.nl)])
             IN  NextLevel(ConstructLevel(t, source, 1, <<>>, 0))
        ELSE t

Construct(t, input) == ConstructLevels(AggregateInit([t EXCEPT !.input_ref = input]))

\* positions count from 0, as in the code
RECURSIVE WindowSegmentValue(_, _, _, _)
WindowSegmentValue(t, l_idx, begin, end) ==
    IF begin >= end THEN t
    ELSE WindowSegmentValue(
            AggregateAccum(t, IF l_idx = 0 THEN t.input_ref[begin + 1]
                              ELSE t.levels[l_idx][begin + 1]),
            l_idx, begin + 1, end)

\* the loop of Compute from level l_idx: the tree when Compute returns
RECURSIVE ComputeLoop(_, _, _, _)
ComputeLoop(t, l_idx, begin, end) ==
    IF l_idx > Len(t.levels) THEN t
    ELSE
    LET parent_begin == begin \div t.fanout
        parent_end == end \div t.fanout
        group_begin == parent_begin * t.fanout
        group_end == parent_end * t.fanout
        t1 == IF begin # group_begin
              THEN WindowSegmentValue(t, l_idx, begin, group_begin + t.fanout) ELSE t
        t2 == IF end # group_end THEN WindowSegmentValue(t1, l_idx, group_end, end) ELSE t1
    IN  IF parent_begin = parent_end THEN WindowSegmentValue(t, l_idx, begin, end)
        ELSE ComputeLoop(t2, l_idx + 1,
                         IF begin # group_begin THEN parent_begin + 1 ELSE parent_begin,
                         parent_end)

\* the tree after Compute(begin, end); AggegateFinal of it is the value returned
Compute(t, begin, end) == ComputeLoop(AggregateInit(t), 0, begin, end)

(***************************************************************************)
(* PhysicalWindow                                                          *)
(***************************************************************************)
\* the fanout of the segment tree built by ComputeWindowExpression
WindowFanout == 16

\* A WindowExpression. partitions: columns of the tuple (from 1); orders: records
\* [col, type] with type ASCENDING or DESCENDING; start, end: WindowBoundary kinds;
\* start_expr, end_expr: [is_scalar, value, col], a constant or a column of the
\* tuple; child: the payload column, 0 when the function has no argument
WindowExpression(type, partitions, orders, start, end, start_expr, end_expr, child) ==
    [type |-> type, partitions |-> partitions, orders |-> orders, start |-> start,
     end |-> end, start_expr |-> start_expr, end_expr |-> end_expr, child |-> child]

\* the row of the sort collection for one tuple: partition values, then order values
SortRow(wexpr, tuple) ==
    [i \in 1..(Len(wexpr.partitions) + Len(wexpr.orders)) |->
        IF i <= Len(wexpr.partitions) THEN tuple[wexpr.partitions[i]]
        ELSE tuple[wexpr.orders[i - Len(wexpr.partitions)].col]]

\* sort row a comes strictly before sort row b under the OrderByDescription
RowBefore(wexpr, a, b) ==
    \E i \in 1..Len(a) :
        /\ \A j \in 1..(i - 1) : a[j] = b[j]
        /\ IF i > Len(wexpr.partitions)
              /\ wexpr.orders[i - Len(wexpr.partitions)].type = "DESCENDING"
           THEN a[i] > b[i] ELSE a[i] < b[i]

\* ChunkCollection::Sort: the permutations that sort the input (the order of ties
\* is not specified)
SortedVectors(wexpr, input) ==
    {perm \in Permutations(1..Len(input)) :
        \A i \in 1..(Len(input) - 1) :
            ~RowBefore(wexpr, SortRow(wexpr, input[perm[i + 1]]),
                       SortRow(wexpr, input[perm[i]]))}

\* indices count from 0, as in the code
EqualsSubset(a, b, start, end) == \A i \in start..(end - 1) : a[i + 1] = b[i + 1]

\* a plausible slip: the search is skipped and the last row of the range returned
BinarySearchRightmostLastRow(input, row, l, r, comp_cols) == r - 1

RECURSIVE BinarySearchRightmost(_, _, _, _, _)
BinarySearchRightmost(input, row, l, r, comp_cols) ==
    IF comp_cols = 0 THEN r - 1
    ELSE IF l < r THEN
        LET m == (l + r) \div 2
            less_than_equals == \A i \in 0..(comp_cols - 1) : ~(input[m + 1][i + 1] > row[i + 1])
        IN  IF less_than_equals THEN BinarySearchRightmost(input, row, m + 1, r, comp_cols)
            ELSE BinarySearchRightmost(input, row, l, m, comp_cols)
    ELSE l - 1

\* a plausible slip: the frame end of b FOLLOWING is not made exclusive
ResolveBoundaryInclusiveEnd(kind, is_start, row_idx, offset, bounds) ==
    CASE kind = "UNBOUNDED_PRECEDING" -> IF is_start THEN bounds.partition_start ELSE -1
      [] kind = "UNBOUNDED_FOLLOWING" -> IF is_start THEN -1 ELSE bounds.partition_end
      [] kind = "CURRENT_ROW_ROWS" -> IF is_start THEN row_idx ELSE row_idx + 1
      [] kind = "CURRENT_ROW_RANGE" -> IF is_start THEN bounds.peer_start ELSE bounds.peer_end
      [] kind = "EXPR_PRECEDING" -> IF is_start THEN row_idx - offset ELSE row_idx - offset + 1
      [] kind = "EXPR_FOLLOWING" -> row_idx + offset

\* the frame start or end before clamping; -1 where the switch assigns nothing
ResolveBoundary(kind, is_start, row_idx, offset, bounds) ==
    CASE kind = "UNBOUNDED_PRECEDING" -> IF is_start THEN bounds.partition_start ELSE -1
      [] kind = "UNBOUNDED_FOLLOWING" -> IF is_start THEN -1 ELSE bounds.partition_end
      [] kind = "CURRENT_ROW_ROWS" -> IF is_start THEN row_idx ELSE row_idx + 1
      [] kind = "CURRENT_ROW_RANGE" -> IF is_start THEN bounds.peer_start ELSE bounds.peer_end
      [] kind = "EXPR_PRECEDING" -> IF is_start THEN row_idx - offset ELSE row_idx - offset + 1
      [] kind = "EXPR_FOLLOWING" -> IF is_start THEN row_idx + offset ELSE row_idx + offset + 1

\* a plausible slip: the start of the frame is clamped to the input's first row
ClampToInput(b, window_start, window_end) ==
    [b EXCEPT
        !.window_start = IF window_start < b.partition_start THEN 0 ELSE window_start,
        !.window_end = IF window_end < 0 \/ window_end > b.partition_end
                       THEN b.partition_end ELSE window_end]

\* the frame clamped to the partition; window_end > partition_end compares
\* a ssize_t with a size_t, that is as unsigned: a negative end is large
ClampToPartition(b, window_start, window_end) ==
    [b EXCEPT
        !.window_start = IF window_start < b.partition_start THEN b.partition_start
                         ELSE window_start,
        !.window_end = IF window_end < 0 \/ window_end > b.partition_end
                       THEN b.partition_end ELSE window_end]

\* input is the sort collection, count its number of rows, tuples the sorted input
UpdateWindowBoundaries(wexpr, input, count, row_idx, tuples, bounds) ==
    LET row_cur == IF input = <<>> THEN <<>> ELSE input[row_idx + 1]
        sort_col_count == Len(wexpr.partitions) + Len(wexpr.orders)
        is_same_partition == EqualsSubset(bounds.row_prev, row_cur, 0, Len(wexpr.partitions))
        is_peer == is_same_partition
                     /\ EqualsSubset(bounds.row_prev, row_cur, Len(wexpr.partitions),
                                     sort_col_count)
        new_partition == ~is_same_partition \/ row_idx = 0
        b1 == [bounds EXCEPT
                 !.is_same_partition = is_same_partition,
                 !.is_peer = is_peer,
                 !.row_prev = row_cur,
                 !.partition_start = IF new_partition THEN row_idx ELSE @,
                 !.peer_start = IF new_partition \/ ~is_peer THEN row_idx ELSE @,
                 !.partition_end =
                     IF new_partition
                     THEN BinarySearchRightmost(input, row_cur, row_idx, count,
                                                Len(wexpr.partitions)) + 1
                     ELSE @]
        b2 == [b1 EXCEPT
                 !.peer_end =
                     IF wexpr.end = "CURRENT_ROW_RANGE"
                     THEN BinarySearchRightmost(input, row_cur, row_idx, b1.partition_end,
                                                sort_col_count) + 1
                     ELSE @]
        \* boundary collection value: GetValue(0, IsScalar() ? 0 : row_idx)
        BoundaryValue(expr) ==
            IF expr.is_scalar THEN expr.value ELSE tuples[row_idx + 1][expr.col]
        \* "Failed to compute window boundaries" is thrown on a negative bound
        Checked(b) == [b EXCEPT !.failed = b.window_start < 0 \/ b.window_end < 0]
        Clamp(b, window_start, window_end) ==
            Checked(ClampToPartition(b, window_start, window_end))
    IN  Clamp(b2,
              ResolveBoundary(wexpr.start, TRUE, row_idx,
                              BoundaryValue(wexpr.start_expr), b2),
              ResolveBoundary(wexpr.end, FALSE, row_idx,
                              BoundaryValue(wexpr.end_expr), b2))

WindowBoundariesState(row_prev) ==
    [partition_start |-> 0, partition_end |-> 0, peer_start |-> 0, peer_end |-> 0,
     window_start |-> -1, window_end |-> -1, is_same_partition |-> FALSE,
     is_peer |-> FALSE, row_prev |-> row_prev, failed |-> FALSE]

UpdateRanksByOne(ranks, bounds, row_idx) ==
    IF ~bounds.is_same_partition \/ row_idx = 0
    THEN [dense_rank |-> 1, rank |-> 1, rank_equal |-> 0]
    ELSE IF ~bounds.is_peer
    THEN [dense_rank |-> ranks.dense_rank + 1, rank |-> ranks.rank + 1, rank_equal |-> 0]
    ELSE ranks

\* dense_rank, rank and rank_equal at a row, before its result is computed
UpdateRanks(ranks, bounds, row_idx) ==
    IF ~bounds.is_same_partition \/ row_idx = 0
    THEN [dense_rank |-> 1, rank |-> 1, rank_equal |-> 0]
    ELSE IF ~bounds.is_peer
    THEN [dense_rank |-> ranks.dense_rank + 1, rank |-> ranks.rank + ranks.rank_equal,
          rank_equal |-> 0]
    ELSE ranks

\* the switch on wexpr->type for a row whose frame is not empty
WindowValue(wexpr, bounds, ranks, row_idx, payload_collection, segment_tree) ==
    CASE wexpr.type \in {"WINDOW_SUM", "WINDOW_MIN", "WINDOW_MAX", "WINDOW_AVG"} ->
            AggegateFinal(Compute(segment_tree, bounds.window_start, bounds.window_end))
      [] wexpr.type = "WINDOW_COUNT_STAR" -> Numeric(bounds.window_end - bounds.window_start)
      [] wexpr.type = "WINDOW_ROW_NUMBER" -> Numeric(row_idx - bounds.window_start + 1)
      [] wexpr.type = "WINDOW_RANK_DENSE" -> Numeric(ranks.dense_rank)
      [] wexpr.type = "WINDOW_RANK" -> Numeric(ranks.rank)
      [] wexpr.type = "WINDOW_FIRST_VALUE" -> payload_collection[bounds.window_start + 1]
      [] wexpr.type = "WINDOW_LAST_VALUE" -> payload_collection[bounds.window_end]

\* The main loop from row_idx on. w = [wexpr, sort_collection, count, tuples,
\* payload_collection, segment_tree]; acc = [bounds, ranks, column, trace]: the state
\* of the loop, the values set in the output column and the bounds of every row
RECURSIVE WindowLoop(_, _, _)
WindowLoop(w, row_idx, acc) ==
    IF row_idx >= Len(w.tuples) THEN acc
    ELSE
    LET \* the row's result under its bounds and ranks, then the rows after it
        Row(bounds, ranks) ==
            LET empty == bounds.window_start >= bounds.window_end
                res == IF empty THEN NullValue
                       ELSE WindowValue(w.wexpr, bounds, ranks, row_idx,
                                        w.payload_collection, w.segment_tree)
            IN  WindowLoop(w, row_idx + 1,
                           [bounds |-> bounds,
                            ranks |-> IF ~empty /\ w.wexpr.type = "WINDOW_RANK"
                                      THEN [ranks EXCEPT !.rank_equal = @ + 1] ELSE ranks,
                            column |-> Append(acc.column, res),
                            trace |-> Append(acc.trace, bounds)])
        \* the exception of UpdateWindowBoundaries ends the loop at this row
        Ranked(bounds) ==
            IF bounds.failed
            THEN [acc EXCEPT !.bounds = bounds, !.trace = Append(acc.trace, bounds)]
            ELSE Row(bounds, UpdateRanks(acc.ranks, bounds, row_idx))
    IN  Ranked(UpdateWindowBoundaries(w.wexpr, w.sort_collection, w.count, row_idx,
                                      w.tuples, acc.bounds))

\* ComputeWindowExpression with the input sorted by sorted_vector: the input
\* afterwards, the output column, and the sort collection and bounds of the rows
ComputeWindowExpression(wexpr, input, sorted_vector) ==
    LET sort_col_count == Len(wexpr.partitions) + Len(wexpr.orders)
        tuples == IF sort_col_count > 0
                  THEN [i \in 1..Len(input) |-> input[sorted_vector[i]]] ELSE input
        sort_collection == IF sort_col_count > 0
                           THEN [i \in 1..Len(input) |-> SortRow(wexpr, tuples[i])] ELSE <<>>
        payload_collection == IF wexpr.child > 0
                              THEN [i \in 1..Len(input) |-> Numeric(tuples[i][wexpr.child])]
                              ELSE <<>>
        segment_tree == IF wexpr.type \in {"WINDOW_SUM", "WINDOW_MIN", "WINDOW_MAX", "WINDOW_AVG"}
                        THEN Construct(WindowSegmentTree(wexpr.type, WindowFanout),
                                       payload_collection)
                        ELSE WindowSegmentTree(wexpr.type, WindowFanout)
        row_prev == IF sort_collection = <<>> THEN <<>> ELSE sort_collection[1]
        Result(done) ==
            [input |-> tuples, column |-> done.column,
             sweep |-> [sort_collection |-> sort_collection, bounds |-> done.trace,
                        column |-> done.column, failed |-> done.bounds.failed]]
    IN  Result(WindowLoop([wexpr |-> wexpr, sort_collection |-> sort_collection,
                           count |-> Len(sort_collection), tuples |-> tuples,
                           payload_collection |-> payload_collection,
                           segment_tree |-> segment_tree],
                          0,
                          [bounds |-> WindowBoundariesState(row_prev),
                           ranks |-> [dense_rank |-> 0, rank |-> 0, rank_equal |-> 0],
                           column |-> <<>>, trace |-> <<>>]))

\* The loop of _GetChunk over select_list from expr_idx on: the set of outcomes
\* [tuples, window_results, sweeps], one for every way the sorts order the ties.
\* window_results holds the output columns; sweeps what every expression computed
RECURSIVE ComputeWindowExpressions(_, _, _)
ComputeWindowExpressions(select_list, expr_idx, st) ==
    IF expr_idx > Len(select_list) THEN {st}
    ELSE
    LET Rest(r) ==
            ComputeWindowExpressions(select_list,
                IF r.sweep.failed THEN Len(select_list) + 1 ELSE expr_idx + 1,
                [tuples |-> r.input,
                 window_results |-> Append(st.window_results, r.column),
                 sweeps |-> Append(st.sweeps, r.sweep)])
    IN  UNION {Rest(ComputeWindowExpression(select_list[expr_idx], st.tuples,
                                            sorted_vector)) :
                  sorted_vector \in SortedVectors(select_list[expr_idx], st.tuples)}

(***************************************************************************)
(* The state of the model                                                  *)
(***************************************************************************)
VARIABLES
    combiner,        \* the FilterCombiner object: a record of its member maps
    inputs,          \* the predicates passed to AddFilter so far
    result,          \* what the last AddFilter call returned ("NONE" before the first)
    emitted,         \* the filters the last GenerateFilters call handed to its callback
    phase,           \* where the caller is
    collected,       \* the filters collected from a first GenerateFilters run
    fed,             \* how many of the collected filters went into the fresh combiner
    column_ids,      \* the column_ids vector passed to the table scan calls
    table_filters,   \* what GenerateTableScanFilters returned
    zonemap_checks,  \* what GenerateZonemapChecks returned
    tree,            \* a WindowSegmentTree object
    computed,        \* the last Compute call on it: its range and the value returned
    select_list,     \* the window expressions of a PhysicalWindow operator
    window,          \* its PhysicalWindowOperatorState, with the child's rows
    output           \* the rows it has returned so far

combinerVars == <<combiner, inputs, result, emitted, phase>>
refeedVars == <<collected, fed>>
scanVars == <<column_ids, table_filters, zonemap_checks>>
treeVars == <<tree, computed>>
windowVars == <<select_list, window, output>>
vars == <<combinerVars, refeedVars, scanVars, treeVars, windowVars>>

Cols == 0..(NumCols - 1)
\* the integer constants of the predicates: 2, 4, ..
Consts == {IntVal(2 * v) : v \in 1..MaxConst}

\* the rows over which the predicates are read: every column takes the constants
\* and the integers below, between and above them
Rows == [Cols -> {IntVal(v) : v \in (2 - NumCols)..(2 * MaxConst + NumCols)}]

ColumnConstantComparisons ==
    {Comparison(t, ColumnRef(a), Constant(v)) : t \in ComparisonTypes, a \in Cols, v \in Consts}

ColumnColumnComparisons ==
    {Comparison(t, ColumnRef(a), ColumnRef(b)) : t \in ComparisonTypes, a \in Cols, b \in Cols}

BetweenFilters ==
    {Between(ColumnRef(0), Constant(lo), Constant(hi), li, ui) :
        lo \in Consts, hi \in Consts, li \in BOOLEAN, ui \in BOOLEAN}
    \cup {Between(ColumnRef(0), Constant(IntVal(2)), ColumnRef(1), TRUE, TRUE),
          Between(ColumnRef(0), ColumnRef(1), Constant(IntVal(2)), TRUE, TRUE),
          Between(ColumnRef(0), ColumnRef(1), ColumnRef(1), TRUE, TRUE)}

\* the predicates handed to AddFilter
FilterInputs ==
    ColumnConstantComparisons \cup ColumnColumnComparisons \cup BetweenFilters
        \cup {Comparison(t, Constant(v), ColumnRef(0)) : t \in ComparisonTypes, v \in Consts}
        \cup {Comparison(COMPARE_EQUAL, Constant(IntVal(2)), Constant(v)) : v \in Consts}

\* a fresh FilterCombiner, nothing returned yet
InitCombiner ==
    /\ combiner = EmptyCombiner(0)
    /\ inputs = {}
    /\ result = "NONE"
    /\ emitted = <<>>
    /\ collected = <<>>
    /\ fed = 0
    /\ column_ids = <<>>
    /\ table_filters = <<>>
    /\ zonemap_checks = {}

NoRange == [begin |-> 0, end |-> 0, value |-> NullValue]

InitTree ==
    /\ tree = WindowSegmentTree("WINDOW_SUM", 2)
    /\ computed = NoRange

\* the operator state as constructed, over a child that will deliver child_rows
PhysicalWindowOperatorState(child_rows) ==
    [tuples |-> <<>>, window_results |-> <<>>, sweeps |-> <<>>, position |-> 0,
     child_rows |-> child_rows, child_position |-> 0, child_pulls |-> 0]

InitWindow ==
    /\ select_list = <<>>
    /\ window = PhysicalWindowOperatorState(<<>>)
    /\ output = <<>>

Init ==
    /\ InitCombiner
    /\ InitTree
    /\ InitWindow
    /\ phase = "absorb"

\* the caller goes on with the combiner only while AddFilter returns SUCCESS
Usable == phase = "absorb" /\ result \in {"NONE", "SUCCESS"}

DoAddFilter ==
    /\ Usable
    /\ Cardinality(inputs) < MaxFilters
    /\ \E expr \in FilterInputs \ inputs :
          \E r \in {AddFilter(combiner, expr)} :
              /\ combiner' = r.c
              /\ result' = r.result
              /\ inputs' = inputs \cup {expr}
    /\ UNCHANGED <<emitted, phase, refeedVars, scanVars, treeVars, windowVars>>

DoGenerateFilters ==
    /\ Usable
    /\ \E order \in IterationOrders(DOMAIN combiner.equivalence_map) :
          emitted' = GenerateFilters(combiner, order)
    /\ combiner' = AfterGenerateFilters(combiner)
    /\ phase' = "generated"
    /\ UNCHANGED <<inputs, result, refeedVars, scanVars, treeVars, windowVars>>

Next == DoAddFilter \/ DoGenerateFilters

Spec == Init /\ [][Next]_vars

(***************************************************************************)
(* Asking the combiner whether it has filters before generating them       *)
(***************************************************************************)
\* FilterCombiner::HasFilters: GenerateFilters runs with a callback that only sets
\* has_filters; the caller branches on the value returned
DoHasFilters ==
    /\ Usable
    /\ \E order \in IterationOrders(DOMAIN combiner.equivalence_map) :
          \E has_filters \in {GenerateFilters(combiner, order) # <<>>} :
              phase' = IF has_filters THEN "has_filters" ELSE "no_filters"
    /\ combiner' = AfterGenerateFilters(combiner)
    /\ UNCHANGED <<inputs, result, emitted, refeedVars, scanVars, treeVars, windowVars>>

\* GenerateFilters called after HasFilters
DoGenerateFiltersAfterHasFilters ==
    /\ phase \in {"has_filters", "no_filters"}
    /\ \E order \in IterationOrders(DOMAIN combiner.equivalence_map) :
          emitted' = GenerateFilters(combiner, order)
    /\ combiner' = AfterGenerateFilters(combiner)
    /\ phase' = "generated"
    /\ UNCHANGED <<inputs, result, refeedVars, scanVars, treeVars, windowVars>>

NextHasFilters == DoAddFilter \/ DoHasFilters \/ DoGenerateFiltersAfterHasFilters

SpecHasFilters == Init /\ [][NextHasFilters]_vars

(***************************************************************************)
(* Feeding the emitted filters into a fresh combiner                       *)
(***************************************************************************)
RefeedInputs == ColumnConstantComparisons \cup ColumnColumnComparisons

DoAddFilterRefeed ==
    /\ Usable
    /\ Cardinality(inputs) < MaxFilters
    /\ \E expr \in RefeedInputs \ inputs :
          \E r \in {AddFilter(combiner, expr)} :
              /\ combiner' = r.c
              /\ result' = r.result
              /\ inputs' = inputs \cup {expr}
    /\ UNCHANGED <<emitted, phase, refeedVars, scanVars, treeVars, windowVars>>

\* the first run's GenerateFilters; the filters go to a fresh FilterCombiner
DoCollectFilters ==
    /\ Usable
    /\ \E order \in IterationOrders(DOMAIN combiner.equivalence_map) :
          collected' = GenerateFilters(combiner, order)
    /\ combiner' = EmptyCombiner(0)
    /\ result' = "NONE"
    /\ fed' = 0
    /\ phase' = "refeed"
    /\ UNCHANGED <<inputs, emitted, scanVars, treeVars, windowVars>>

DoFeedBack ==
    /\ phase = "refeed"
    /\ result \in {"NONE", "SUCCESS"}
    /\ fed < Len(collected)
    /\ \E r \in {AddFilter(combiner, collected[fed + 1])} :
           /\ combiner' = r.c
           /\ result' = r.result
    /\ fed' = fed + 1
    /\ UNCHANGED <<inputs, emitted, phase, collected, scanVars, treeVars, windowVars>>

DoGenerateAgain ==
    /\ phase = "refeed"
    /\ result \in {"NONE", "SUCCESS"}
    /\ fed = Len(collected)
    /\ \E order \in IterationOrders(DOMAIN combiner.equivalence_map) :
          emitted' = GenerateFilters(combiner, order)
    /\ combiner' = AfterGenerateFilters(combiner)
    /\ phase' = "regenerated"
    /\ UNCHANGED <<inputs, result, refeedVars, scanVars, treeVars, windowVars>>

NextRefeed == DoAddFilterRefeed \/ DoCollectFilters \/ DoFeedBack \/ DoGenerateAgain

SpecRefeed == Init /\ [][NextRefeed]_vars

(***************************************************************************)
(* Pushing filters into the table scan                                     *)
(***************************************************************************)
\* how many predicates the table scan runs absorb
MaxScanFilters == 2
\* the length of the strings in the VARCHAR column
MaxStrLen == 2

\* the column after the integer columns holds strings
StrCol == NumCols

\* code units of the strings: 'a', 'b' and DEL, the largest single-unit character.
\* VARCHAR values are valid UTF-8, in which the last unit of a character is at
\* most 0xBF, so that the unit 0xFF never ends a prefix.
Strings == UNION {[1..n -> {97, 98, 127}] : n \in 0..MaxStrLen}

ScanRows ==
    {r \in [(0..StrCol) -> {IntVal(v) : v \in 1..(2 * MaxConst + 1)}
                          \cup {StrVal(str) : str \in Strings}] :
        /\ r[StrCol].type = "VARCHAR"
        /\ \A a \in Cols : r[a].type = "INTEGER"}

\* comparisons, prefix() and LIKE on the VARCHAR column
StringFilters ==
    {Comparison(t, ColumnRef(StrCol), Constant(StrVal(<<98>>))) :
        t \in {COMPARE_EQUAL, COMPARE_LESSTHAN, COMPARE_NOTEQUAL}}
    \cup {Function("prefix", <<ColumnRef(StrCol), Constant(StrVal(lit))>>) :
        lit \in {<<>>, <<97>>, <<97, 98>>, <<127>>}}
    \cup {Function("~~", <<ColumnRef(StrCol), Constant(StrVal(pattern))>>) :
        pattern \in {<<>>, <<97>>, <<97, PERCENT>>, <<97, UNDERSCORE>>, <<PERCENT, 97>>,
                     <<97, 98, PERCENT>>, <<UNDERSCORE>>}}

InOperators ==
    {InOperator(<<ColumnRef(a), Constant(IntVal(v)), Constant(IntVal(w))>>) :
        a \in Cols, v \in 2..(2 * MaxConst), w \in 2..(2 * MaxConst)}
    \cup {InOperator(<<ColumnRef(0), Constant(IntVal(2)), ColumnRef(1)>>),
          InOperator(<<ColumnRef(0), Constant(IntVal(2)), Constant(IntVal(3)),
                       Constant(IntVal(4))>>)}

Conjunctions ==
    {Conjunction(t, <<p, q>>) :
        t \in {"CONJUNCTION_OR", "CONJUNCTION_AND"},
        p \in {Comparison(COMPARE_EQUAL, ColumnRef(0), Constant(IntVal(2))),
               Comparison(COMPARE_GREATERTHAN, ColumnRef(0), Constant(IntVal(4)))},
        q \in {Comparison(COMPARE_EQUAL, ColumnRef(0), Constant(IntVal(4))),
               Comparison(COMPARE_LESSTHAN, ColumnRef(0), Constant(IntVal(2))),
               Comparison(COMPARE_EQUAL, ColumnRef(1), Constant(IntVal(4))),
               Comparison(COMPARE_EQUAL, ColumnRef(0), ColumnRef(1))}}

ScanInputs ==
    ColumnConstantComparisons \cup ColumnColumnComparisons \cup StringFilters
        \cup InOperators \cup Conjunctions

\* the column_ids vectors: binding column index -> column of the table
ColumnIds ==
    {[a \in (0..StrCol) |-> a],
     [a \in (0..StrCol) |-> (a + 1) % (NumCols + 1)],
     [a \in (0..StrCol) |-> IF a = 0 THEN COLUMN_IDENTIFIER_ROW_ID ELSE a],
     [a \in (0..StrCol) |-> IF a = StrCol THEN COLUMN_IDENTIFIER_ROW_ID ELSE a]}

DoAddFilterScan ==
    /\ Usable
    /\ Cardinality(inputs) < MaxScanFilters
    /\ \E expr \in ScanInputs \ inputs :
          \E r \in {AddFilter(combiner, expr)} :
              /\ combiner' = r.c
              /\ result' = r.result
              /\ inputs' = inputs \cup {expr}
    /\ UNCHANGED <<emitted, phase, refeedVars, scanVars, treeVars, windowVars>>

\* the call dereferences equivalence_map.end() when a constant list has no
\* equivalence set left: the model stops there, in phase "undefined"
DoGenerateTableScanFilters ==
    /\ Usable
    /\ \E ids \in ColumnIds, order \in IterationOrders(DOMAIN combiner.constant_values) :
          \E r \in {GenerateTableScanFilters(combiner, ids, order)} :
              /\ combiner' = r.c
              /\ table_filters' = r.filters
              /\ column_ids' = ids
              /\ phase' = IF r.ub THEN "undefined" ELSE "scanned"
    /\ UNCHANGED <<inputs, result, emitted, refeedVars, zonemap_checks, treeVars, windowVars>>

DoGenerateZonemapChecks ==
    /\ phase = "scanned"
    /\ zonemap_checks' = GenerateZonemapChecks(combiner, column_ids, table_filters)
    /\ phase' = "zonemapped"
    /\ UNCHANGED <<combiner, inputs, result, emitted, refeedVars, column_ids, table_filters, treeVars, windowVars>>

NextScan == DoAddFilterScan \/ DoGenerateTableScanFilters \/ DoGenerateZonemapChecks

SpecScan == Init /\ [][NextScan]_vars

(***************************************************************************)
(* A segment tree is constructed over a payload and queried                *)
(***************************************************************************)
\* the longest payload column
MaxPayload == 5
\* the payload values are 1..MaxValue
MaxValue == 2
\* the fanouts are 2..MaxFanout
MaxFanout == 3

Payloads == UNION {[1..n -> {Numeric(v) : v \in 1..MaxValue}] : n \in 1..MaxPayload}

InitSegmentTree ==
    /\ InitCombiner
    /\ tree \in {WindowSegmentTree(window_type, fanout) :
                    window_type \in {"WINDOW_SUM", "WINDOW_MIN", "WINDOW_MAX", "WINDOW_AVG"},
                    fanout \in 2..MaxFanout}
    /\ computed = NoRange
    /\ InitWindow
    /\ phase = "tree"

DoConstruct ==
    /\ phase = "tree"
    /\ \E input \in Payloads : tree' = Construct(tree, input)
    /\ phase' = "constructed"
    /\ UNCHANGED <<combiner, inputs, result, emitted, refeedVars, scanVars, computed, windowVars>>

DoCompute ==
    /\ phase = "constructed"
    /\ \E begin \in 0..(Len(tree.input_ref) - 1), end \in 1..Len(tree.input_ref) :
          /\ begin < end
          /\ tree' = Compute(tree, begin, end)
          /\ computed' = [begin |-> begin, end |-> end, value |-> AggegateFinal(tree')]
    /\ UNCHANGED <<combinerVars, refeedVars, scanVars, windowVars>>

NextSegmentTree == DoConstruct \/ DoCompute

SpecSegmentTree == InitSegmentTree /\ [][NextSegmentTree]_vars

(***************************************************************************)
(* A PhysicalWindow operator is pulled until it returns an empty chunk     *)
(***************************************************************************)
\* the most rows the child delivers
MaxRows == 3
\* the rows of a chunk (STANDARD_VECTOR_SIZE, scaled down)
VectorSize == 2

\* the GetChunk calls on the child the model follows
MaxPulls == 4

\* tuples of two columns
Tuples == [1..2 -> 1..MaxValue]
ChildData == UNION {[1..n -> Tuples] : n \in 0..MaxRows}

\* PARTITION BY and ORDER BY keys
Keys ==
    {[partitions |-> p, orders |-> o] :
        p \in {<<>>, <<1>>},
        o \in {<<[col |-> 2, type |-> "ASCENDING"]>>, <<[col |-> 2, type |-> "DESCENDING"]>>}}
    \cup {[partitions |-> <<1>>, orders |-> <<>>],
          [partitions |-> <<>>, orders |-> <<[col |-> 1, type |-> "ASCENDING"]>>]}

\* the boundary expression: the constant 1
One == [is_scalar |-> TRUE, value |-> 1, col |-> 0]

\* ranking functions under every pair of frame boundaries
RankingExpressions ==
    {WindowExpression(type, k.partitions, k.orders, start, end, One, One, 0) :
        type \in {"WINDOW_ROW_NUMBER", "WINDOW_RANK", "WINDOW_RANK_DENSE"},
        k \in Keys,
        start \in {"UNBOUNDED_PRECEDING", "CURRENT_ROW_ROWS", "CURRENT_ROW_RANGE",
                   "EXPR_PRECEDING", "EXPR_FOLLOWING"},
        end \in {"CURRENT_ROW_ROWS", "CURRENT_ROW_RANGE", "UNBOUNDED_FOLLOWING",
                 "EXPR_PRECEDING", "EXPR_FOLLOWING"}}

\* functions framed by the whole partition: their value does not depend on the
\* order of ties
PartitionExpressions ==
    {WindowExpression(f.type, k.partitions, k.orders, "UNBOUNDED_PRECEDING",
                      "UNBOUNDED_FOLLOWING", One, One, f.child) :
        f \in {[type |-> "WINDOW_RANK", child |-> 0], [type |-> "WINDOW_RANK_DENSE", child |-> 0],
               [type |-> "WINDOW_COUNT_STAR", child |-> 0], [type |-> "WINDOW_SUM", child |-> 2]},
        k \in Keys}

\* a window without PARTITION BY and without ORDER BY
NoKeys == [partitions |-> <<>>, orders |-> <<>>]

\* frame offsets: the constants 0 and 1, and column 1 of the row
Offsets == {[is_scalar |-> TRUE, value |-> 0, col |-> 0], One,
            [is_scalar |-> FALSE, value |-> 0, col |-> 1]}

\* SUM over column 2 under RANGE .. CURRENT ROW, under ROWS a PRECEDING ..
\* b FOLLOWING and under ROWS UNBOUNDED PRECEDING .. b PRECEDING, COUNT(*) over
\* partitions of two columns, FIRST_VALUE and LAST_VALUE of column 2 under ROWS
\* a PRECEDING .. a FOLLOWING, and SUM and COUNT(*) over the whole input of a
\* window without keys
FrameExpressions ==
    {WindowExpression("WINDOW_SUM", k.partitions, k.orders, "UNBOUNDED_PRECEDING",
                      "CURRENT_ROW_RANGE", One, One, 2) : k \in Keys}
    \cup {WindowExpression("WINDOW_SUM", k.partitions, k.orders, "EXPR_PRECEDING",
                           "EXPR_FOLLOWING", a, b, 2) :
              k \in Keys \cup {NoKeys}, a \in Offsets, b \in Offsets}
    \cup {WindowExpression("WINDOW_SUM", k.partitions, k.orders, "UNBOUNDED_PRECEDING",
                           "EXPR_PRECEDING", One, b, 2) : k \in Keys, b \in Offsets}
    \cup {WindowExpression("WINDOW_COUNT_STAR", <<1, 2>>, <<>>, "UNBOUNDED_PRECEDING",
                           "UNBOUNDED_FOLLOWING", One, One, 0)}
    \cup {WindowExpression(type, <<1>>, <<[col |-> 2, type |-> "ASCENDING"]>>,
                           "EXPR_PRECEDING", "EXPR_FOLLOWING", a, a, 2) :
              type \in {"WINDOW_FIRST_VALUE", "WINDOW_LAST_VALUE"}, a \in Offsets}
    \cup {WindowExpression(f.type, <<>>, <<>>, "UNBOUNDED_PRECEDING", "UNBOUNDED_FOLLOWING",
                           One, One, f.child) :
              f \in {[type |-> "WINDOW_COUNT_STAR", child |-> 0],
                     [type |-> "WINDOW_SUM", child |-> 2]}}

SelectLists ==
    {<<e>> : e \in RankingExpressions \cup PartitionExpressions \cup FrameExpressions}
    \cup {<<e, f>> : e \in PartitionExpressions, f \in PartitionExpressions}

InitPhysicalWindow ==
    /\ InitCombiner
    /\ InitTree
    /\ select_list \in SelectLists
    /\ window \in {PhysicalWindowOperatorState(child_rows) : child_rows \in ChildData}
    /\ output = <<>>
    /\ phase = "window"

\* PhysicalWindow::_GetChunk. On a call with position = 0 the child is pulled until
\* it returns an empty chunk, and all the window expressions are computed. The
\* parent may call again after a call that returned no rows; a child that has
\* returned an empty chunk returns an empty chunk again.
DoGetChunk ==
    /\ phase = "window" \/ (phase = "exhausted" /\ window.child_pulls < MaxPulls)
    /\ LET first == window.position = 0
           rest == Len(window.child_rows) - window.child_position
           pulled == IF first
                     THEN [window EXCEPT
                             !.tuples = @ \o SubSeq(window.child_rows,
                                                    window.child_position + 1,
                                                    Len(window.child_rows)),
                             !.child_position = Len(window.child_rows),
                             !.child_pulls = @ + (rest + VectorSize - 1) \div VectorSize + 1]
                     ELSE window
           outcomes ==
               IF first /\ pulled.tuples # <<>>
               THEN {[pulled EXCEPT !.tuples = st.tuples,
                                    !.window_results = st.window_results,
                                    !.sweeps = st.sweeps] :
                        st \in ComputeWindowExpressions(select_list, 1,
                                  [tuples |-> pulled.tuples, window_results |-> <<>>,
                                   sweeps |-> <<>>])}
               ELSE {pulled}
       IN  \E computed_state \in outcomes :
              LET last == IF computed_state.position + VectorSize < Len(computed_state.tuples)
                          THEN computed_state.position + VectorSize
                          ELSE Len(computed_state.tuples)
                  chunk == [k \in 1..(last - computed_state.position) |->
                              [tuple |-> computed_state.tuples[computed_state.position + k],
                               window |-> [j \in 1..Len(select_list) |->
                                   computed_state.window_results[j][computed_state.position + k]]]]
              IN  IF \E j \in 1..Len(computed_state.sweeps) : computed_state.sweeps[j].failed
                  THEN \* the exception leaves _GetChunk
                       /\ window' = computed_state
                       /\ output' = output
                       /\ phase' = "failed"
                  ELSE IF computed_state.tuples = <<>>
                     \/ computed_state.position >= Len(computed_state.tuples)
                  THEN /\ window' = computed_state
                       /\ output' = output
                       /\ phase' = "exhausted"
                  ELSE /\ window' = [computed_state EXCEPT !.position = @ + VectorSize]
                       /\ output' = output \o chunk
                       /\ phase' = "window"
    /\ UNCHANGED <<combiner, inputs, result, emitted, refeedVars, scanVars, treeVars,
                   select_list>>

NextPhysicalWindow == DoGetChunk

SpecPhysicalWindow == InitPhysicalWindow /\ [][NextPhysicalWindow]_vars

(***************************************************************************)
(* Claims about the filter combiner                                        *)
(***************************************************************************)
SatisfiesInputs(row) == \A p \in inputs : Satisfies(row, p)
SatisfiesEmitted(row) == \A k \in 1..Len(emitted) : Satisfies(row, emitted[k])

\* C1: when every AddFilter call returned SUCCESS, every row that satisfies all the
\* filters emitted by GenerateFilters satisfies every predicate passed to AddFilter.
C1_EmittedImplyInputs ==
    (phase = "generated" /\ result \in {"NONE", "SUCCESS"}) =>
        \A row \in Rows : SatisfiesEmitted(row) => SatisfiesInputs(row)

\* C2: every filter emitted by GenerateFilters is satisfied by every row that
\* satisfies all the predicates passed to AddFilter.
C2_InputsImplyEmitted ==
    phase = "generated" =>
        \A row \in Rows : SatisfiesInputs(row) => SatisfiesEmitted(row)

\* C2 witness: a bound derived through a column-to-column inequality was emitted
\* for its left column, and some row satisfies the inputs
C2_Witness ==
    /\ phase = "generated"
    /\ \E row \in Rows : SatisfiesInputs(row)
    /\ \E k \in 1..Len(emitted) : \E p \in inputs :
          /\ emitted[k] \notin inputs
          /\ emitted[k].cls = "BOUND_COMPARISON"
          /\ Right(emitted[k]).cls = "BOUND_CONSTANT"
          /\ p.cls = "BOUND_COMPARISON"
          /\ IsGreaterThan(p.type) \/ IsLessThan(p.type)
          /\ Left(p) = Left(emitted[k])
          /\ Right(p).cls = "BOUND_COLUMN_REF"
          /\ Right(p) # Left(p)
          /\ \A q \in inputs \ {p} : Right(q) = Right(p) /\ Right(q) # Left(q)

\* C3: when AddFilter returns UNSATISFIABLE, no row satisfies the conjunction of the
\* predicates passed so far.
C3_UnsatisfiableIsEmpty ==
    result = "UNSATISFIABLE" => ~(\E row \in Rows : SatisfiesInputs(row))

\* C3 witness: UNSATISFIABLE was returned for predicates each of which some row
\* satisfies, after a union of two equivalence sets
C3_Witness ==
    /\ result = "UNSATISFIABLE"
    /\ Cardinality(inputs) = MaxFilters
    /\ \A p \in inputs : \E row \in Rows : Satisfies(row, p)
    /\ \E s \in DOMAIN combiner.equivalence_map : Len(combiner.equivalence_map[s]) > 1

\* C10: when every AddFilter call returns SUCCESS, feeding the filters of a first
\* GenerateFilters run into a fresh combiner and generating again gives as many
\* filters as the first run gave.
C10_SameNumberOfFilters ==
    phase = "regenerated" => Len(emitted) = Len(collected)

(***************************************************************************)
(* Claims about the table scan filters                                     *)
(***************************************************************************)
SatisfiesTableFilter(row, filter) ==
    CompareValues(filter.comparison_type, row[filter.column_index], filter.constant)

\* a zonemap check names the column of the table, column_ids[binding index]
SatisfiesZonemapCheck(row, check) ==
    \A a \in (0..StrCol) :
        column_ids[a] = check.column_index =>
            CompareValues(check.comparison_type, row[a], check.constant)

\* C8: every TableFilter returned by GenerateTableScanFilters is satisfied by every
\* row that satisfies the conjunction of the predicates passed to AddFilter.
C8_TableFiltersSound ==
    phase = "scanned" =>
        \A row \in ScanRows :
            SatisfiesInputs(row) =>
                \A k \in 1..Len(table_filters) : SatisfiesTableFilter(row, table_filters[k])

\* C8 witness: a LIKE pattern with a prefix and a consecutive IN list were both
\* turned into range filters, and some row satisfies the two predicates
C8_Witness ==
    /\ phase = "scanned"
    /\ \E row \in ScanRows : SatisfiesInputs(row)
    /\ \E p \in inputs, q \in inputs :
          /\ p.cls = "BOUND_FUNCTION" /\ p.name = "~~"
          /\ q.type = "COMPARE_IN"
          /\ \E k \in 1..Len(table_filters) :
                /\ table_filters[k].comparison_type = COMPARE_LESSTHAN
                /\ table_filters[k].constant =
                       StrVal(IncrementLast(LikePrefix(p.children[2].value.s)))
          /\ \E k \in 1..Len(table_filters) :
                /\ table_filters[k].comparison_type = COMPARE_LESSTHANOREQUALTO
                /\ table_filters[k].column_index = q.children[1].col
                /\ table_filters[k].constant.i > q.children[2].value.i

\* C9: every zonemap check returned by GenerateZonemapChecks is satisfied by every
\* row that satisfies the conjunction of the predicates passed to AddFilter.
C9_ZonemapChecksSound ==
    phase = "zonemapped" =>
        \A row \in ScanRows :
            SatisfiesInputs(row) =>
                \A check \in zonemap_checks : SatisfiesZonemapCheck(row, check)

(***************************************************************************)
(* Claims about the segment tree                                           *)
(***************************************************************************)
RECURSIVE Sum(_, _, _)
Sum(column, begin, end) ==
    IF begin >= end THEN 0 ELSE column[begin + 1].value + Sum(column, begin + 1, end)

\* the aggregate of the payload rows begin..end-1, accumulated row by row
Naive(window_type, column, begin, end) ==
    LET values == {column[pos + 1].value : pos \in begin..(end - 1)}
    IN  CASE window_type = "WINDOW_SUM" -> Sum(column, begin, end)
          [] window_type = "WINDOW_AVG" -> Sum(column, begin, end) \div (end - begin)
          [] window_type = "WINDOW_MIN" -> CHOOSE v \in values : \A w \in values : v <= w
          [] window_type = "WINDOW_MAX" -> CHOOSE v \in values : \A w \in values : v >= w

\* C4: after Construct, Compute(a, b) returns for SUM, MIN, MAX and AVG the naive
\* accumulation of the payload rows a..b-1, for every payload, fanout and range.
C4_ComputeIsNaive ==
    (phase = "constructed" /\ computed # NoRange) =>
        computed.value =
            Numeric(Naive(tree.window_type, tree.input_ref, computed.begin, computed.end))

(***************************************************************************)
(* Claims about the window operator                                        *)
(***************************************************************************)
\* The value of a window function framed by its whole partition for tuple t among
\* tuples, read off the definition of the function
Reference(wexpr, tuples, t) ==
    LET partition == {i \in 1..Len(tuples) :
                         \A c \in 1..Len(wexpr.partitions) :
                             tuples[i][wexpr.partitions[c]] = t[wexpr.partitions[c]]}
        before == {i \in partition :
                      RowBefore(wexpr, SortRow(wexpr, tuples[i]), SortRow(wexpr, t))}
    IN  CASE wexpr.type = "WINDOW_RANK" -> 1 + Cardinality(before)
          [] wexpr.type = "WINDOW_RANK_DENSE" ->
                1 + Cardinality({SortRow(wexpr, tuples[i]) : i \in before})
          [] wexpr.type = "WINDOW_COUNT_STAR" -> Cardinality(partition)
          [] wexpr.type = "WINDOW_SUM" ->
                Sum([i \in 1..Len(tuples) |->
                        Numeric(IF i \in partition THEN tuples[i][wexpr.child] ELSE 0)],
                    0, Len(tuples))

\* C5: the operator returns one row per input row, and window column j of an output
\* row holds the value of window expression j for the tuple of that row.
C5_WindowColumnsMatchTuples ==
    phase = "exhausted" =>
        /\ \A t \in Tuples :
              Cardinality({k \in 1..Len(output) : output[k].tuple = t})
                  = Cardinality({k \in 1..Len(window.child_rows) : window.child_rows[k] = t})
        /\ \A k \in 1..Len(output), j \in 1..Len(select_list) :
              select_list[j] \in PartitionExpressions =>
                  output[k].window[j]
                      = Numeric(Reference(select_list[j], window.child_rows, output[k].tuple))

\* rows i and k (from 1) of a sort collection agree on its first cols columns
SameKeys(sort_collection, i, k, cols) ==
    EqualsSubset(sort_collection[i], sort_collection[k], 0, cols)

\* C6: when no frame is empty, under RANK the rows of a peer group share a rank and
\* the next peer group of the partition starts at that rank plus the size of the
\* group, under DENSE_RANK at that rank plus 1, and every partition starts at 1.
C6_RankLaw ==
    \A j \in 1..Len(window.sweeps) :
        LET wexpr == select_list[j]
            sweep == window.sweeps[j]
            sorted == sweep.sort_collection
            keys == Len(wexpr.partitions) + Len(wexpr.orders)
            group(i) == {k \in 1..i : \A m \in k..i : SameKeys(sorted, m, i, keys)}
        IN  (/\ wexpr.type \in {"WINDOW_RANK", "WINDOW_RANK_DENSE"}
             /\ \A i \in 1..Len(sweep.column) : ~sweep.column[i].is_null)
            => \A i \in 1..Len(sweep.column) :
                  sweep.column[i].value =
                      IF i = 1 \/ ~SameKeys(sorted, i - 1, i, Len(wexpr.partitions)) THEN 1
                      ELSE IF SameKeys(sorted, i - 1, i, keys) THEN sweep.column[i - 1].value
                      ELSE IF wexpr.type = "WINDOW_RANK"
                      THEN sweep.column[i - 1].value + Cardinality(group(i - 1))
                      ELSE sweep.column[i - 1].value + 1

\* C6 witness: RANK over three rows of one partition, two peers and then a row of
\* the next peer group, which gets rank 3
C6_Witness ==
    /\ Len(window.sweeps) = 1
    /\ select_list[1].type = "WINDOW_RANK"
    /\ select_list[1].partitions # <<>>
    /\ LET sweep == window.sweeps[1]
       IN  /\ Len(sweep.column) = MaxRows
           /\ sweep.sort_collection[1] = sweep.sort_collection[2]
           /\ sweep.sort_collection[2][1] = sweep.sort_collection[MaxRows][1]
           /\ sweep.sort_collection[2] # sweep.sort_collection[MaxRows]
           /\ sweep.column[MaxRows] = Numeric(MaxRows)

\* C7: under ROW_NUMBER, whatever the frame boundaries, the rows of every partition
\* get 1, 2, .. in sort order.
C7_RowNumberCountsPartition ==
    \A j \in 1..Len(window.sweeps) :
        LET wexpr == select_list[j]
            sweep == window.sweeps[j]
            partition(i) == {k \in 1..i : \A m \in k..i :
                                SameKeys(sweep.sort_collection, m, i, Len(wexpr.partitions))}
        IN  wexpr.type = "WINDOW_ROW_NUMBER" =>
                \A i \in 1..Len(sweep.column) :
                    sweep.column[i] = Numeric(Cardinality(partition(i)))

\* C11: an AddFilter call that returns UNSATISFIABLE leaves stored_expressions,
\* equivalence_set_map, equivalence_map, constant_values and remaining_filters as
\* they were before the call.
C11_UnsatisfiableLeavesState ==
    [][result' = "UNSATISFIABLE" =>
          /\ combiner'.stored_expressions = combiner.stored_expressions
          /\ combiner'.equivalence_set_map = combiner.equivalence_set_map
          /\ combiner'.equivalence_map = combiner.equivalence_map
          /\ combiner'.constant_values = combiner.constant_values
          /\ combiner'.remaining_filters = combiner.remaining_filters]_vars

\* C12: after GenerateFilters returns, stored_expressions, equivalence_set_map,
\* equivalence_map, constant_values and remaining_filters are empty, and a
\* GenerateFilters that follows immediately hands nothing to the callback.
C12_GenerateFiltersClears ==
    phase = "generated" =>
        /\ combiner.stored_expressions = {}
        /\ DOMAIN combiner.equivalence_set_map = {}
        /\ DOMAIN combiner.equivalence_map = {}
        /\ DOMAIN combiner.constant_values = {}
        /\ combiner.remaining_filters = <<>>
        /\ \A order \in IterationOrders(DOMAIN combiner.equivalence_map) :
              GenerateFilters(combiner, order) = <<>>

\* C12 witness: GenerateFilters returned after handing out a residual filter and a
\* filter built from an equivalence set
C12_Witness ==
    /\ phase = "generated"
    /\ \E k \in 1..Len(emitted) :
          emitted[k] \in inputs /\ emitted[k].type = COMPARE_NOTEQUAL
             /\ Right(emitted[k]).cls = "BOUND_COLUMN_REF"
    /\ \E k \in 1..Len(emitted) :
          emitted[k].cls = "BOUND_COMPARISON" /\ Right(emitted[k]).cls = "BOUND_CONSTANT"

\* C13: when the predicates added are `a = b` and one constant bound `z op c` on
\* z = a or z = b, in either order, GenerateFilters emits `a = b`, `a op c` and
\* `b op c`.
C13_TransitiveClosure ==
    phase = "generated" =>
        \A a \in Cols, b \in Cols, z \in Cols, op \in ComparisonTypes, c \in Consts :
            (/\ a # b
             /\ z \in {a, b}
             /\ inputs = {Comparison(COMPARE_EQUAL, ColumnRef(a), ColumnRef(b)),
                          Comparison(op, ColumnRef(z), Constant(c))}) =>
                \A filter \in {Comparison(COMPARE_EQUAL, ColumnRef(a), ColumnRef(b)),
                               Comparison(op, ColumnRef(a), Constant(c)),
                               Comparison(op, ColumnRef(b), Constant(c))} :
                    \E k \in 1..Len(emitted) : emitted[k] = filter

\* C13 witness: the bound on b was added before `a = b`, which leaves b's old
\* bucket behind, and the bound was emitted for a
C13_Witness ==
    /\ phase = "generated"
    /\ inputs = {Comparison(COMPARE_EQUAL, ColumnRef(0), ColumnRef(1)),
                 Comparison(COMPARE_GREATERTHAN, ColumnRef(1), Constant(IntVal(2)))}
    /\ Len(emitted) = 4
    /\ \E k \in 1..Len(emitted) :
          emitted[k] = Comparison(COMPARE_GREATERTHAN, ColumnRef(0), Constant(IntVal(2)))

\* C14: when the predicates added are `x = c` and a bound `x op d`, in either
\* order, the constant list of x's equivalence set is exactly [= c] and the result
\* SUCCESS when `c op d` holds, and the result is UNSATISFIABLE when it does not.
C14_EqualityAgainstBound ==
    \A x \in Cols, c \in Consts, d \in Consts, op \in ComparisonTypes :
        (/\ phase = "absorb"
         /\ Cardinality(inputs) = 2
         /\ inputs = {Comparison(COMPARE_EQUAL, ColumnRef(x), Constant(c)),
                      Comparison(op, ColumnRef(x), Constant(d))}) =>
            IF CompareValues(op, c, d)
            THEN /\ result = "SUCCESS"
                 /\ combiner.constant_values[combiner.equivalence_set_map[ColumnRef(x)]]
                       = <<Info(COMPARE_EQUAL, c)>>
            ELSE result = "UNSATISFIABLE"

\* C14 witness: `x = 4` and `x > 2` were added and the bound was pruned
C14_Witness ==
    /\ phase = "absorb"
    /\ inputs = {Comparison(COMPARE_EQUAL, ColumnRef(0), Constant(IntVal(4))),
                 Comparison(COMPARE_GREATERTHAN, ColumnRef(0), Constant(IntVal(2)))}
    /\ result = "SUCCESS"
    /\ combiner.constant_values[combiner.equivalence_set_map[ColumnRef(0)]]
          = <<Info(COMPARE_EQUAL, IntVal(4))>>

\* C15: after GenerateTableScanFilters over columns none of which is the row id,
\* for every residual `col IN (c1..ck)` over integer constants: when the sorted
\* values are consecutive, `col >= min` and `col <= max` are among the table filters
\* and the IN filter is no longer in remaining_filters; when they are not, the IN
\* filter is still in remaining_filters.
C15_InRewrittenEverywhere ==
    (/\ phase = "scanned"
     /\ \A a \in DOMAIN column_ids : column_ids[a] # COLUMN_IDENTIFIER_ROW_ID) =>
        \A f \in inputs :
            (/\ f.type = "COMPARE_IN"
             /\ f.children[1].cls = "BOUND_COLUMN_REF"
             /\ \A i \in 2..Len(f.children) : f.children[i].type = "VALUE_CONSTANT") =>
                LET values == {f.children[i].value.i : i \in 2..Len(f.children)}
                    min == CHOOSE v \in values : \A w \in values : v <= w
                    max == CHOOSE v \in values : \A w \in values : v >= w
                    in_remaining == \E k \in 1..Len(combiner.remaining_filters) :
                                        combiner.remaining_filters[k] = f
                    Pushed(type, v) ==
                        \E k \in 1..Len(table_filters) :
                            table_filters[k] = TableFilter(IntVal(v), type, f.children[1].col)
                IN  IF \A v \in min..max : v \in values
                    THEN /\ Pushed(COMPARE_GREATERTHANOREQUALTO, min)
                         /\ Pushed(COMPARE_LESSTHANOREQUALTO, max)
                         /\ ~in_remaining
                    ELSE in_remaining

\* C16: after GenerateTableScanFilters over columns none of which is the row id,
\* for every residual `col ~~ lit` whose literal does not start with a wildcard: when lit has no wildcard, `col = lit` is
\* among the table filters; otherwise `col >= p` and `col < p'` are, p being the text
\* of lit before its first wildcard and p' p with its last code unit incremented;
\* and the LIKE filter is still in remaining_filters.
C16_LikeRewrittenEverywhere ==
    (/\ phase = "scanned"
     /\ \A a \in DOMAIN column_ids : column_ids[a] # COLUMN_IDENTIFIER_ROW_ID) =>
        \A f \in inputs :
            (/\ f.cls = "BOUND_FUNCTION"
             /\ f.name = "~~"
             /\ f.children[1].cls = "BOUND_COLUMN_REF"
             /\ f.children[2].type = "VALUE_CONSTANT"
             /\ \/ f.children[2].value.s = <<>>
                \/ f.children[2].value.s[1] \notin {PERCENT, UNDERSCORE}) =>
                LET lit == f.children[2].value.s
                    p == LikePrefix(lit)
                    Pushed(type, str) ==
                        \E k \in 1..Len(table_filters) :
                            table_filters[k] = TableFilter(StrVal(str), type, f.children[1].col)
                IN  /\ IF p = lit THEN Pushed(COMPARE_EQUAL, lit)
                       ELSE /\ Pushed(COMPARE_GREATERTHANOREQUALTO, p)
                            /\ Pushed(COMPARE_LESSTHAN, IncrementLast(p))
                    /\ \E k \in 1..Len(combiner.remaining_filters) :
                          combiner.remaining_filters[k] = f

\* C17: for an end boundary CURRENT_ROW_RANGE and an ORDER BY of either direction,
\* the frame end of a row is one past the last row of its peer group, and under
\* start UNBOUNDED_PRECEDING the SUM of the row is the sum from the start of its
\* partition through the end of its peer group.
C17_RangeFrameEndsAtPeerGroup ==
    \A j \in 1..Len(window.sweeps) :
        LET wexpr == select_list[j]
            sweep == window.sweeps[j]
            sorted == sweep.sort_collection
            keys == Len(wexpr.partitions) + Len(wexpr.orders)
            peers(i) == {k \in 1..Len(sorted) : SameKeys(sorted, k, i, keys)}
            peer_end(i) == CHOOSE m \in peers(i) : \A k \in peers(i) : k <= m
            through(i) == {k \in 1..peer_end(i) :
                              SameKeys(sorted, k, i, Len(wexpr.partitions))}
        IN  (wexpr.end = "CURRENT_ROW_RANGE" /\ wexpr.orders # <<>>) =>
                \A i \in 1..Len(sweep.bounds) :
                    /\ sweep.bounds[i].window_end = peer_end(i)
                    /\ (/\ wexpr.type = "WINDOW_SUM"
                        /\ wexpr.start = "UNBOUNDED_PRECEDING"
                        /\ Len(select_list) = 1) =>
                           sweep.column[i] =
                               Numeric(Sum([k \in 1..Len(sorted) |->
                                               Numeric(IF k \in through(i)
                                                       THEN window.tuples[k][wexpr.child]
                                                       ELSE 0)],
                                           0, Len(sorted)))

\* window expression x of a single-expression select list is a SUM framed by
\* a PRECEDING and b FOLLOWING, and every row i (from 1) of the sorted input holds
\* the sum of the payload of the rows j of its partition with i - a <= j <= i + b
RowsFrameSum(x) ==
    LET wexpr == select_list[x]
        sweep == window.sweeps[x]
        tuples == window.tuples
        offset(expr, i) == IF expr.is_scalar THEN expr.value ELSE tuples[i][expr.col]
        partition(i) == {j \in 1..Len(tuples) :
                            \A c \in 1..Len(wexpr.partitions) :
                                tuples[j][wexpr.partitions[c]] = tuples[i][wexpr.partitions[c]]}
        frame(i) == {j \in partition(i) :
                        /\ i - offset(wexpr.start_expr, i) <= j
                        /\ j <= i + offset(wexpr.end_expr, i)}
    IN  (/\ wexpr.type = "WINDOW_SUM"
         /\ wexpr.start = "EXPR_PRECEDING"
         /\ wexpr.end = "EXPR_FOLLOWING"
         /\ Len(select_list) = 1) =>
            \A i \in 1..Len(sweep.column) :
                sweep.column[i] =
                    Numeric(Sum([j \in 1..Len(tuples) |->
                                    Numeric(IF j \in frame(i) THEN tuples[j][wexpr.child]
                                            ELSE 0)],
                                0, Len(tuples)))

C19_NoKeysOnePartition ==
    \A j \in 1..Len(window.sweeps) :
        LET wexpr == select_list[j]
            sweep == window.sweeps[j]
            N == Len(window.tuples)
        IN  (wexpr.partitions = <<>> /\ wexpr.orders = <<>>) =>
                \A i \in 1..N :
                    /\ sweep.bounds[i].partition_start = 0
                    /\ sweep.bounds[i].partition_end = N
                    /\ (wexpr.start = "UNBOUNDED_PRECEDING"
                           /\ wexpr.end = "UNBOUNDED_FOLLOWING") =>
                           /\ sweep.bounds[i].window_start = 0
                           /\ sweep.bounds[i].window_end = N
                           /\ wexpr.type = "WINDOW_COUNT_STAR" => sweep.column[i] = Numeric(N)

\* the GetChunk calls that take the child to its first empty chunk
PullsToEndOfStream == (Len(window.child_rows) + VectorSize - 1) \div VectorSize + 1

\* C20: the operator is blocking: no call pulls from the child once an output row
\* has been returned, the child is never pulled again after it has returned its
\* empty chunk, and an empty input produces no output row on any call.
C20_Blocking ==
    /\ [][output # <<>> => window'.child_pulls = window.child_pulls]_vars
    /\ [](window.child_pulls <= PullsToEndOfStream)
    /\ [](window.child_rows = <<>> => output = <<>>)

\* C21: EvaluateScalar is called only on foldable expressions: no AddFilter call,
\* and none on a BETWEEN with exactly one foldable bound, hands a bound that is not
\* foldable to EvaluateScalar (the call that makes the result "ERROR").
C21_EvaluateScalarOnFoldableOnly ==
    result # "ERROR"

\* C22: the frame is clamped over signed integers, window_start = max(resolved
\* start, partition_start) and window_end = min(resolved end, partition_end); for
\* an end n PRECEDING with i - n + 1 < 0 the sweep fails at row i with the window
\* boundary error and produces no value for the row.
C22_SignedClamp ==
    \A j \in 1..Len(window.sweeps) :
        LET wexpr == select_list[j]
            sweep == window.sweeps[j]
            offset(expr, i) == IF expr.is_scalar THEN expr.value
                               ELSE window.tuples[i][expr.col]
            start(i) == ResolveBoundary(wexpr.start, TRUE, i - 1,
                                        offset(wexpr.start_expr, i), sweep.bounds[i])
            end(i) == ResolveBoundary(wexpr.end, FALSE, i - 1,
                                      offset(wexpr.end_expr, i), sweep.bounds[i])
            Max(a, b) == IF a < b THEN b ELSE a
            Min(a, b) == IF a < b THEN a ELSE b
        IN  (Len(select_list) = 1 /\ (wexpr.partitions # <<>> \/ wexpr.orders # <<>>)) =>
                \A i \in 1..Len(sweep.bounds) :
                    /\ sweep.bounds[i].window_start = Max(start(i), sweep.bounds[i].partition_start)
                    /\ sweep.bounds[i].window_end = Min(end(i), sweep.bounds[i].partition_end)
                    /\ (wexpr.end = "EXPR_PRECEDING" /\ end(i) < 0) =>
                           /\ sweep.failed
                           /\ Len(sweep.column) < i

\* C23: for a window expression with a PARTITION BY or ORDER BY column, at every row
\* i of the sweep [partition_start, partition_end) is the maximal run of consecutive
\* rows with the PARTITION BY values of row i, and peer_start is the first row of
\* the peer group of row i.
C23_PartitionAndPeerStart ==
    \A j \in 1..Len(window.sweeps) :
        LET wexpr == select_list[j]
            sweep == window.sweeps[j]
            sorted == sweep.sort_collection
            keys == Len(wexpr.partitions) + Len(wexpr.orders)
            \* the rows (from 1) reached from row i through rows with equal keys
            run(i, cols) == {k \in 1..Len(sorted) :
                                \A m \in (IF k < i THEN k ELSE i)..(IF k < i THEN i ELSE k) :
                                    SameKeys(sorted, m, i, cols)}
        IN  keys > 0 =>
                /\ Len(sweep.bounds) = Len(window.tuples)
                /\ \A i \in 1..Len(sweep.bounds) :
                      /\ run(i, Len(wexpr.partitions))
                            = (sweep.bounds[i].partition_start + 1)..sweep.bounds[i].partition_end
                      /\ \A k \in run(i, keys) : sweep.bounds[i].peer_start + 1 <= k
                      /\ sweep.bounds[i].peer_start + 1 \in run(i, keys)

\* C23 witness: three rows, a partition of two rows that are not peers and then a
\* second partition
C23_Witness ==
    /\ Len(window.sweeps) = 1
    /\ select_list[1].partitions # <<>>
    /\ select_list[1].orders # <<>>
    /\ LET bounds == window.sweeps[1].bounds
       IN  /\ Len(bounds) = MaxRows
           /\ bounds[1].partition_end = 2
           /\ bounds[2].partition_start = 0
           /\ bounds[2].peer_start = 1
           /\ bounds[MaxRows].partition_start = 2
           /\ bounds[MaxRows].partition_end = MaxRows

\* C24: after Construct every node is the aggregate of its group of the level
\* below, level[k+1][j] = AGG(level[k][j*f .. min(j*f + f, |level[k]|))) with level 0
\* the payload, the first node of a level built after a short last group included.
C24_NodesAggregateGroups ==
    phase = "constructed" =>
        \A k \in 1..Len(tree.levels) :
            LET source == IF k = 1 THEN tree.input_ref ELSE tree.levels[k - 1]
                f == tree.fanout
            IN  /\ Len(tree.levels[k]) = (Len(source) + f - 1) \div f
                /\ \A j \in 0..(Len(tree.levels[k]) - 1) :
                      tree.levels[k][j + 1] =
                          Numeric(Naive(tree.window_type, source, j * f,
                                        IF j * f + f < Len(source) THEN j * f + f
                                        ELSE Len(source)))

\* C25: for AVG, Compute(a, b) returns the sum of the payload rows a..b-1 divided by
\* b - a, and the count the final division uses is the number of payload rows of
\* the range, also when the range is answered from nodes of upper levels.
C25_AvgDividesByRows ==
    (tree.window_type = "WINDOW_AVG" /\ computed # NoRange) =>
        /\ computed.value
              = Numeric(Sum(tree.input_ref, computed.begin, computed.end)
                            \div (computed.end - computed.begin))
        /\ tree.n_aggregated = computed.end - computed.begin

\* C26: for a bound `x lt u` (< or <=) and a bound `x gt l` (> or >=) on one
\* equivalence set, CompareValueInformation returns UNSATISFIABLE exactly when l > u,
\* or l = u and one of the bounds is strict, and PRUNE_NOTHING otherwise; adding the
\* two bounds in either order returns UNSATISFIABLE in exactly those cases.
C26_OppositeBounds ==
    \A x \in Cols, u \in Consts, l \in Consts,
       lt \in {COMPARE_LESSTHAN, COMPARE_LESSTHANOREQUALTO},
       gt \in {COMPARE_GREATERTHAN, COMPARE_GREATERTHANOREQUALTO} :
        (/\ phase = "absorb"
         /\ inputs = {Comparison(lt, ColumnRef(x), Constant(u)),
                      Comparison(gt, ColumnRef(x), Constant(l))}) =>
            LET unsatisfiable ==
                    \/ ValueLT(u, l)
                    \/ u = l /\ (lt = COMPARE_LESSTHAN \/ gt = COMPARE_GREATERTHAN)
                expected == IF unsatisfiable THEN "UNSATISFIABLE_CONDITION"
                            ELSE "PRUNE_NOTHING"
            IN  /\ CompareValueInformation(Info(lt, u), Info(gt, l)) = expected
                /\ CompareValueInformation(Info(gt, l), Info(lt, u)) = expected
                /\ (result = "UNSATISFIABLE") <=> unsatisfiable

\* the bounds an AddFilter call can bring
Infos == {Info(t, v) : t \in ComparisonTypes, v \in Consts}

\* the bounds held in the constant lists of the combiner
StoredInfos ==
    UNION {{combiner.constant_values[s][k] : k \in 1..Len(combiner.constant_values[s])} :
              s \in DOMAIN combiner.constant_values}

\* C27, as stated: for every pair of bounds L, R, L and R identical included,
\* CompareValueInformation(L, R) is CompareValueInformation(R, L) with PRUNE_LEFT and
\* PRUNE_RIGHT exchanged.
C27_SymmetricUnderInversionAnyPair ==
    \A L \in StoredInfos, R \in Infos :
        CompareValueInformation(L, R)
            = InvertValueComparisonResult(CompareValueInformation(R, L))

\* C27, amended: the same for every pair of different bounds L, R.
C27_SymmetricUnderInversion ==
    \A L \in StoredInfos, R \in Infos :
        L # R => CompareValueInformation(L, R)
                     = InvertValueComparisonResult(CompareValueInformation(R, L))

\* C27 witness: `x >= 4` was compared with the stored `x > 2`, which was pruned, and
\* the pair prunes the other side when it is swapped
C27_Witness ==
    /\ phase = "absorb"
    /\ inputs = {Comparison(COMPARE_GREATERTHAN, ColumnRef(0), Constant(IntVal(2))),
                 Comparison(COMPARE_GREATERTHANOREQUALTO, ColumnRef(0), Constant(IntVal(4)))}
    /\ StoredInfos = {Info(COMPARE_GREATERTHANOREQUALTO, IntVal(4))}
    /\ CompareValueInformation(Info(COMPARE_GREATERTHAN, IntVal(2)),
                               Info(COMPARE_GREATERTHANOREQUALTO, IntVal(4))) = "PRUNE_LEFT"
    /\ CompareValueInformation(Info(COMPARE_GREATERTHANOREQUALTO, IntVal(4)),
                               Info(COMPARE_GREATERTHAN, IntVal(2))) = "PRUNE_RIGHT"

\* C28: absorbing `x BETWEEN lo AND hi` with foldable bounds is absorbing `x >= lo`
\* (`>` when the lower bound is exclusive) and then `x <= hi` (`<`) through the
\* scalar comparison path: from every combiner state the constant list of x is the
\* same, and the result is UNSATISFIABLE whenever one of the two comparisons returns
\* UNSATISFIABLE.
C28_BetweenIsTwoComparisons ==
    [][\A x \in Cols, lo \in Consts, hi \in Consts, li \in BOOLEAN, ui \in BOOLEAN :
          LET between == Between(ColumnRef(x), Constant(lo), Constant(hi), li, ui)
              lower == Comparison(IF li THEN COMPARE_GREATERTHANOREQUALTO
                                  ELSE COMPARE_GREATERTHAN, ColumnRef(x), Constant(lo))
              upper == Comparison(IF ui THEN COMPARE_LESSTHANOREQUALTO
                                  ELSE COMPARE_LESSTHAN, ColumnRef(x), Constant(hi))
              first == AddFilter(combiner, lower)
              second == AddFilter(first.c, upper)
          IN  (between \notin inputs /\ inputs' = inputs \cup {between}) =>
                  /\ combiner'.constant_values[combiner'.equivalence_set_map[ColumnRef(x)]]
                        = second.c.constant_values[second.c.equivalence_set_map[ColumnRef(x)]]
                  /\ ("UNSATISFIABLE" \in {first.result, second.result})
                        => result' = "UNSATISFIABLE"]_vars

\* the number of copies of filter in remaining_filters
Copies(remaining_filters, filter) ==
    Cardinality({k \in 1..Len(remaining_filters) : remaining_filters[k] = filter})

\* C29: when absorbing a scalar comparison makes FindTransitiveFilter take a
\* comparison out of remaining_filters and AddTransitiveFilters on it returns
\* UNSUPPORTED or UNSATISFIABLE, the comparison is back in remaining_filters when
\* AddFilter returns: a comparison that was taken out stays out only if the
\* transitive derivation succeeded.
C29_FailedTransitiveFilterIsPutBack ==
    [][\A expr \in FilterInputs :
          (/\ expr.cls = "BOUND_COMPARISON"
           /\ IsFoldable(Left(expr)) # IsFoldable(Right(expr))
           /\ expr \notin inputs
           /\ inputs' = inputs \cup {expr}) =>
              LET left_is_scalar == IsFoldable(Left(expr))
                  node == IF left_is_scalar THEN Right(expr) ELSE Left(expr)
                  scalar == IF left_is_scalar THEN Left(expr) ELSE Right(expr)
                  c1 == GetEquivalenceSet(GetNode(combiner, node), node)
                  equivalence_set == c1.equivalence_set_map[node]
                  info == Info(IF left_is_scalar THEN FlipComparisionExpression(expr.type)
                               ELSE expr.type, EvaluateScalar(scalar))
                  c2 == [c1 EXCEPT !.constant_values[equivalence_set] =
                            AddConstantComparison(@, info).list]
                  found == FindTransitiveFilter(c2, node)
                  inner == AddTransitiveFilters(found.c, found.filter, {})
              IN  (found.found /\ inner.result \in {"UNSUPPORTED", "UNSATISFIABLE"}) =>
                      Copies(combiner'.remaining_filters, found.filter)
                          >= Copies(combiner.remaining_filters, found.filter)]_vars

\* C30: every TableFilter that GenerateTableScanFilters emits from the constant
\* bounds of an equivalence set has a comparison type among =, <, <=, >, >=, in
\* whatever order the bounds were added, and is emitted only for a set whose single
\* member is a column reference that is not the row-id column.
C30_PushedBoundsArePushable ==
    [][phase' = "scanned" =>
          \A order \in IterationOrders(DOMAIN combiner.constant_values) :
              LET first == ScanConstantValues([c |-> combiner, filters |-> <<>>,
                                               ub |-> FALSE], column_ids', order, 1)
              IN  (/\ ~first.ub
                   /\ Len(first.filters) <= Len(table_filters')
                   /\ SubSeq(table_filters', 1, Len(first.filters)) = first.filters) =>
                      \A k \in 1..Len(first.filters) :
                          LET f == first.filters[k]
                          IN  /\ PushableComparison(f.comparison_type)
                              /\ column_ids'[f.column_index] # COLUMN_IDENTIFIER_ROW_ID
                              /\ \E s \in DOMAIN combiner.equivalence_map :
                                    /\ combiner.equivalence_map[s]
                                          = <<ColumnRef(f.column_index)>>
                                    /\ \E j \in 1..Len(combiner.constant_values[s]) :
                                          combiner.constant_values[s][j]
                                              = Info(f.comparison_type, f.constant)]_vars

\* C31: every AddFilter call returns after finitely many steps, also when
\* remaining_filters holds cyclic inequalities such as i >= j and j >= i and a
\* constant bound on i or j is then added: no call re-enters AddTransitiveFilters
\* with the combiner and the comparison of a call that is still on the stack.
C31_AddFilterTerminates == result # "DIVERGES"

\* C32: when x and y already belong to the same equivalence set, an AddFilter call
\* with the strict inequality x < y or x > y returns UNSATISFIABLE or leaves the
\* inequality in remaining_filters, from which GenerateFilters emits it.
C32_StrictInequalityInsideSetIsKept ==
    [][\A a \in Cols, b \in Cols, t \in {COMPARE_LESSTHAN, COMPARE_GREATERTHAN} :
          LET x == ColumnRef(a)
              y == ColumnRef(b)
              filter == Comparison(t, x, y)
          IN  (/\ a # b
               /\ x \in DOMAIN combiner.equivalence_set_map
               /\ y \in DOMAIN combiner.equivalence_set_map
               /\ combiner.equivalence_set_map[x] = combiner.equivalence_set_map[y]
               /\ filter \notin inputs
               /\ inputs' = inputs \cup {filter}) =>
                  \/ result' = "UNSATISFIABLE"
                  \/ \E k \in 1..Len(combiner'.remaining_filters) :
                        combiner'.remaining_filters[k] = filter]_vars

\* C33: after AddFilter calls none of which returned UNSATISFIABLE, the constant
\* list of every equivalence set holds at most one lower bound (> or >=), at most
\* one upper bound (< or <=), and an = bound only as its single entry; GenerateFilters
\* then emits, for every member of a set, every bound of the set's list, as a
\* comparison with the constant or as one side of a BETWEEN.
C33_OneBoundPerDirection ==
    /\ [](result = "SUCCESS" /\ phase = "absorb" =>
            \A s \in DOMAIN combiner.constant_values :
                LET list == combiner.constant_values[s]
                    Count(P(_)) == Cardinality({k \in 1..Len(list) : P(list[k].comparison_type)})
                    IsEqual(t) == t = COMPARE_EQUAL
                IN  /\ Count(IsGreaterThan) <= 1
                    /\ Count(IsLessThan) <= 1
                    /\ Count(IsEqual) > 0 => Len(list) = 1)
    /\ [][phase' = "generated" /\ result = "SUCCESS" =>
            \A s \in DOMAIN combiner.equivalence_map :
                \A m \in 1..Len(combiner.equivalence_map[s]),
                   k \in 1..Len(combiner.constant_values[s]) :
                    LET e == combiner.equivalence_map[s][m]
                        info == combiner.constant_values[s][k]
                    IN  \E j \in 1..Len(emitted') :
                            \/ emitted'[j] = Comparison(info.comparison_type, e,
                                                        Constant(info.constant))
                            \/ /\ emitted'[j].cls = "BOUND_BETWEEN"
                               /\ emitted'[j].children[1] = e
                               /\ \/ /\ IsGreaterThan(info.comparison_type)
                                     /\ emitted'[j].children[2] = Constant(info.constant)
                                     /\ emitted'[j].lower_inclusive
                                            = (info.comparison_type
                                                  = COMPARE_GREATERTHANOREQUALTO)
                                  \/ /\ IsLessThan(info.comparison_type)
                                     /\ emitted'[j].children[3] = Constant(info.constant)
                                     /\ emitted'[j].upper_inclusive
                                            = (info.comparison_type
                                                  = COMPARE_LESSTHANOREQUALTO)]_vars

\* GenerateFilters ran after two lower bounds and an upper bound on column 0 had
\* been added, and emitted a BETWEEN for them
C33_Witness ==
    /\ phase = "generated"
    /\ result = "SUCCESS"
    /\ Cardinality({f \in inputs : /\ f.cls = "BOUND_COMPARISON"
                                   /\ IsGreaterThan(f.type)
                                   /\ Left(f) = ColumnRef(0)
                                   /\ IsFoldable(Right(f))}) = 2
    /\ \E j \in 1..Len(emitted) : emitted[j].cls = "BOUND_BETWEEN"

\* C34: after any sequence of AddFilter calls the equivalence sets partition the
\* stored expressions: e is listed in equivalence_map[s] exactly when
\* equivalence_set_map[e] = s, and a set without members keeps no constant bounds.
C34_SetsPartitionExpressions ==
    phase = "absorb" =>
        /\ \A s \in DOMAIN combiner.equivalence_map, e \in DOMAIN combiner.equivalence_set_map :
              (\E k \in 1..Len(combiner.equivalence_map[s]) :
                    combiner.equivalence_map[s][k] = e)
                  <=> combiner.equivalence_set_map[e] = s
        /\ \A s \in DOMAIN combiner.constant_values :
              (\A e \in DOMAIN combiner.equivalence_set_map :
                    combiner.equivalence_set_map[e] # s)
                  => combiner.constant_values[s] = <<>>

\* C35: after any sequence of AddFilter and GenerateTableScanFilters calls, every
\* set id that equivalence_set_map maps an expression to, and every key of
\* constant_values with a non-empty list, is a key of equivalence_map.
C35_SetIdsHaveEquivalenceSets ==
    phase \in {"absorb", "scanned"} =>
        /\ \A e \in DOMAIN combiner.equivalence_set_map :
              combiner.equivalence_set_map[e] \in DOMAIN combiner.equivalence_map
        /\ \A s \in DOMAIN combiner.constant_values :
              combiner.constant_values[s] # <<>> => s \in DOMAIN combiner.equivalence_map

\* C36: AddTransitiveFilters is invoked only with a comparison of type <, <=, > or
\* >=: the comparison that FindTransitiveFilter takes out of remaining_filters when
\* a constant bound is added to an expression, and that is handed to
\* AddTransitiveFilters, has one of these types.
C36_TransitiveFilterIsInequality ==
    [][\A expr \in FilterInputs :
          (/\ expr \notin inputs
           /\ inputs' = inputs \cup {expr}
           /\ expr.cls = "BOUND_COMPARISON"
           /\ ~IsFoldable(expr)
           /\ IsFoldable(Left(expr)) \/ IsFoldable(Right(expr))) =>
              LET non_scalar == IF IsFoldable(Left(expr)) THEN Right(expr) ELSE Left(expr)
                  transitive_filter == FindTransitiveFilter(combiner, non_scalar)
              IN  transitive_filter.found =>
                      \/ IsGreaterThan(transitive_filter.filter.type)
                      \/ IsLessThan(transitive_filter.filter.type)]_vars

\* C37: HasFilters is a pure query: it leaves stored_expressions,
\* equivalence_set_map, equivalence_map, constant_values and remaining_filters as
\* they were, so that GenerateFilters called after a HasFilters call that returned
\* true emits at least one filter.
C37_HasFiltersIsPure ==
    [][/\ (phase = "absorb" /\ phase' \in {"has_filters", "no_filters"}) =>
              combiner' = combiner
       /\ (phase = "has_filters" /\ phase' = "generated") => emitted' # <<>>]_vars

\* C38: at every row of a sweep whose frame is not empty, so that a non-NULL result
\* is produced, 0 <= partition_start <= window_start < window_end <= partition_end
\* <= N holds for the N rows of the input: FIRST_VALUE, LAST_VALUE and
\* WindowSegmentTree::Compute read payload rows that exist and lie in the partition.
C38_FrameInsidePartition ==
    \A j \in 1..Len(window.sweeps) :
        LET sweep == window.sweeps[j]
        IN  \A i \in 1..Len(sweep.column) :
                LET bounds == sweep.bounds[i]
                IN  (bounds.window_start < bounds.window_end
                        \/ sweep.column[i] # NullValue) =>
                        /\ 0 <= bounds.partition_start
                        /\ bounds.partition_start <= bounds.window_start
                        /\ bounds.window_start < bounds.window_end
                        /\ bounds.window_end <= bounds.partition_end
                        /\ bounds.partition_end <= Len(window.tuples)

\* LAST_VALUE under ROWS 1 PRECEDING .. 1 FOLLOWING returned a value at a row whose
\* frame was cut at both ends of its partition, with another partition after it
C38_Witness ==
    /\ Len(select_list) = 1
    /\ Len(window.sweeps) = 1
    /\ select_list[1].type = "WINDOW_LAST_VALUE"
    /\ select_list[1].start_expr = One
    /\ \E i \in 1..Len(window.sweeps[1].column) :
          LET bounds == window.sweeps[1].bounds[i]
          IN  /\ window.sweeps[1].column[i] # NullValue
              /\ bounds.partition_start = i - 1
              /\ bounds.window_start = i - 1
              /\ bounds.window_end = i
              /\ bounds.partition_end = i
              /\ i < Len(window.tuples)

\* AddFilter called with filters[k], filters[k + 1], .. on combiner c, up to the first
\* call that does not return SUCCESS: the combiner and the result of the last call
RECURSIVE AddFilters(_, _, _)
AddFilters(c, filters, k) ==
    IF k > Len(filters) THEN [c |-> c, result |-> "SUCCESS"]
    ELSE LET Then(r) == IF r.result = "SUCCESS" THEN AddFilters(r.c, filters, k + 1) ELSE r
         IN  Then(AddFilter(c, filters[k]))

\* C39: for constant comparisons on a single expression x the outcome does not
\* depend on the order of the AddFilter calls: whenever the calls made so far were
\* all comparisons of column 0 with a constant, every order of the same calls on a
\* fresh combiner ends UNSATISFIABLE if the last call did, and otherwise returns
\* SUCCESS throughout and leaves the same set of constant bounds for x.
C39_OrderOfBoundsIsIrrelevant ==
    (/\ phase = "absorb"
     /\ result \in {"SUCCESS", "UNSATISFIABLE"}
     /\ \A f \in inputs :
           /\ f.cls = "BOUND_COMPARISON"
           /\ \/ Left(f) = ColumnRef(0) /\ IsFoldable(Right(f))
              \/ Right(f) = ColumnRef(0) /\ IsFoldable(Left(f))) =>
        \A filters \in IterationOrders(inputs) :
            LET List(c) == c.constant_values[c.equivalence_set_map[ColumnRef(0)]]
                Bounds(c) == {List(c)[k] : k \in 1..Len(List(c))}
                Same(r) ==
                    IF result = "UNSATISFIABLE" THEN r.result = "UNSATISFIABLE"
                    ELSE r.result = "SUCCESS" /\ Bounds(r.c) = Bounds(combiner)
            IN  Same(AddFilters(EmptyCombiner(0), filters, 1))

\* three bounds on column 0 were added, in an order in which one of them was pruned
\* from the list by a later one, and two bounds are left
C39_Witness ==
    /\ phase = "absorb"
    /\ result = "SUCCESS"
    /\ Cardinality(inputs) = 3
    /\ \A f \in inputs :
          f.cls = "BOUND_COMPARISON" /\ Left(f) = ColumnRef(0) /\ IsFoldable(Right(f))
    /\ Len(combiner.constant_values[0]) = 2
    /\ \E f \in inputs :
          /\ IsLessThan(f.type)
          /\ combiner.constant_values[0][2] = Info(f.type, Right(f).value)
          /\ \E g \in inputs : IsLessThan(g.type) /\ ValueLT(Right(f).value, Right(g).value)

\* C40: GenerateTableScanFilters handles every equivalence set and every residual
\* filter on its own: the TableFilters it returns are those it returns for each
\* set's constant list alone and for each filter of remaining_filters alone,
\* whatever else is stored and in whatever order.
C40_SetsAndFiltersAreIndependent ==
    [][phase' = "scanned" =>
          LET Range(filters) == {filters[k] : k \in 1..Len(filters)}
              OnlySet(s) ==
                  [combiner EXCEPT !.constant_values = [x \in {s} |-> @[s]],
                                   !.remaining_filters = <<>>]
              OnlyFilter(k) ==
                  [combiner EXCEPT !.constant_values = EmptyMap,
                                   !.remaining_filters = <<@[k]>>]
              alone ==
                  UNION ({Range(GenerateTableScanFilters(OnlySet(s), column_ids',
                                                         <<s>>).filters) :
                             s \in DOMAIN combiner.constant_values}
                         \cup {Range(GenerateTableScanFilters(OnlyFilter(k), column_ids',
                                                              <<>>).filters) :
                                  k \in 1..Len(combiner.remaining_filters)})
          IN  Range(table_filters') = alone]_vars

====
